---------------------------- MODULE Spec2Model ----------------------------
(***************************************************************************)
(* Bonzo-app (AdoptMatch): the quiz state, the user-profile builder, the   *)
(* matching rules, the scorer and the results screen, the choice cards,    *)
(* the quiz screen, the stored state and the catalog loaders, as state     *)
(* machines.                                                               *)
(*                                                                         *)
(* JavaScript values are represented as follows.                           *)
(*   - an answer (optionId | optionId[]) is a record [arr, v]: arr says    *)
(*     whether the value is an array, v holds the id(s);                   *)
(*   - an object ({...}) is a function whose DOMAIN is its set of keys;    *)
(*   - a Set is a duplicate-free sequence in insertion order;              *)
(*   - quizIndex and findIndex results are 0-based, as in the code, while  *)
(*     sequences are 1-based.                                              *)
(***************************************************************************)
EXTENDS Integers, Sequences, FiniteSets, TLC

VARIABLES
    questions,   \* data/questions.js: _questions, the loaded catalog
    quizIndex,   \* state.js: _state.quizIndex
    answers,     \* state.js: _state.answers
    storage,     \* localStorage[STORAGE_KEY]
    user,        \* the profile last returned by buildUserProfileFromState
    archetype,   \* the archetype last handed to evaluateArchetypeRules
    outcome,     \* the outcome last returned by evaluateArchetypeRules
    filtered,    \* the {allowed, blocked} last returned by filterArchetypes
    loadedArchetypes,  \* match/archetypes.js: _archetypes
    scored,      \* the last call of scoreArchetype: arguments and result
    penalised,   \* the calls of applyPenalties so far: arguments and result
    results,     \* what renderResultsScreen last computed
    previousResults,  \* what the render before the last one computed
    screen,      \* the screen in #app: its route, and a quiz screen's closures and DOM
    hasState,    \* state.js: _state is not null
    called       \* the last call of a loader or of hydrateState: what it returned or threw

vars == <<questions, quizIndex, answers, storage, user, archetype, outcome, filtered,
          loadedArchetypes, scored, penalised, results,
          previousResults, screen, hasState, called>>

\* The state of the scorer and of the results screen.
matchVars == <<loadedArchetypes, scored, penalised, results>>

\* The state of the application shell around the quiz state.
appVars == <<previousResults, screen, hasState, called>>

----------------------------------------------------------------------------
(* Bounds of the model.                                                    *)

\* Largest number of answered questions held in _state.answers.
MaxAnswered == 2
\* Longest array handed to setManyAnswers.
MaxSel == 2

----------------------------------------------------------------------------
(* Values.                                                                 *)

Single(o) == [arr |-> FALSE, v |-> <<o>>]
Many(l) == [arr |-> TRUE, v |-> l]

Range(s) == {s[i] : i \in 1..Len(s)}
SetMin(S) == CHOOSE x \in S : \A y \in S : x <= y
NoDup(s) == \A i, j \in 1..Len(s) : i # j => s[i] # s[j]

\* All sequences over S of length at most n.
RECURSIVE SeqsUpTo(_, _)
SeqsUpTo(S, n) ==
    IF n = 0 THEN {<<>>}
    ELSE LET shorter == SeqsUpTo(S, n - 1)
         IN shorter \cup {Append(l, x) : l \in {m \in shorter : Len(m) = n - 1},
                                         x \in S}

EmptyAnswers == [k \in {} |-> Single("")]

\* scoring.js TRAITS / archetypes.js TRAIT_KEYS
TRAITS == {"T1", "T2", "T3", "T4", "T5", "T6", "T7", "T8", "T9", "T10"}

\* k.startsWith("T"), over the keys an option's traits object can hold
\* (the trait keys, "risk" and "mobility_penalty").
StartsWithT(k) == k \in TRAITS

\* Mutant: the id is taken as it comes.
Trim_Keep(s) == s

\* String(x).trim(), over the ids the model feeds in.
Trim(s) == CASE s = " " -> ""
             [] s = " low" -> "low"
             [] OTHER -> s

clamp(n, min, max) ==
    LET lo == IF max < n THEN max ELSE n
    IN IF min > lo THEN min ELSE lo

----------------------------------------------------------------------------
(* state.js: the user profile builder.                                     *)

\* Mutant: the traits object starts empty instead of holding the ten keys.
neutralTraits_Empty == [k \in {} |-> 2]

\* Mutant: the scale's bottom, not its midpoint, stands for "no signal".
neutralTraits_Zero == [k \in {"T1", "T2", "T3", "T4", "T5", "T6", "T7", "T8", "T9", "T10"} |-> 0]

neutralTraits == [k \in TRAITS |-> 2]

\* Mutant: flags kept in an array, push without a membership test.
SetAdd_Push(flags, f) == Append(flags, f)

\* Set.prototype.add on an insertion-ordered set.
SetAdd(flags, f) == IF f \in Range(flags) THEN flags ELSE Append(flags, f)

\* o.id === optionId: an array is never strictly equal to an id.
StrictEq(id, val) == ~val.arr /\ val.v[1] = id

\* (question.options || []).find((o) => o.id === optionId): 0 when none.
FindOption(options, val) ==
    LET hits == {i \in 1..Len(options) : StrictEq(options[i].id, val)}
    IN IF hits = {} THEN 0 ELSE SetMin(hits)

\* Mutant: a trait an option defines is averaged with the value so far.
applyOption_Average(question, val, acc) ==
    LET i == FindOption(question.options, val)
    IN IF i = 0 THEN acc
       ELSE LET t == question.options[i].traits
                tk == {k \in DOMAIN t : StartsWithT(k)}
                traits1 == [k \in DOMAIN acc.traits \cup tk |->
                              IF k \in tk /\ k \in DOMAIN acc.traits
                              THEN clamp((acc.traits[k] + t[k]) \div 2, 0, 4)
                              ELSE IF k \in tk THEN clamp(t[k], 0, 4)
                              ELSE acc.traits[k]]
                flags1 == IF "risk" \in DOMAIN t /\ t["risk"] # ""
                          THEN SetAdd(acc.flags, t["risk"]) ELSE acc.flags
                flags2 == IF "mobility_penalty" \in DOMAIN t /\ t["mobility_penalty"]
                          THEN SetAdd(flags1, "stairs_high") ELSE flags1
            IN [traits |-> traits1, flags |-> flags2]

\* Mutant: an option id the question does not have falls back to the
\* question's first option.
applyOption_FallbackFirst(question, val, acc) ==
    LET found == FindOption(question.options, val)
        i == IF found = 0 /\ Len(question.options) > 0 THEN 1 ELSE found
    IN IF i = 0 THEN acc
       ELSE LET t == question.options[i].traits
                tk == {k \in DOMAIN t : StartsWithT(k)}
                traits1 == [k \in DOMAIN acc.traits \cup tk |->
                              IF k \in tk THEN clamp(t[k], 0, 4) ELSE acc.traits[k]]
                flags1 == IF "risk" \in DOMAIN t /\ t["risk"] # ""
                          THEN SetAdd(acc.flags, t["risk"]) ELSE acc.flags
                flags2 == IF "mobility_penalty" \in DOMAIN t /\ t["mobility_penalty"]
                          THEN SetAdd(flags1, "stairs_high") ELSE flags1
            IN [traits |-> traits1, flags |-> flags2]

applyOption(question, val, acc) ==
    LET i == FindOption(question.options, val)
    IN IF i = 0 THEN acc
       ELSE LET t == question.options[i].traits
                tk == {k \in DOMAIN t : StartsWithT(k)}
                traits1 == [k \in DOMAIN acc.traits \cup tk |->
                              IF k \in tk THEN clamp(t[k], 0, 4) ELSE acc.traits[k]]
                flags1 == IF "risk" \in DOMAIN t /\ t["risk"] # ""
                          THEN SetAdd(acc.flags, t["risk"]) ELSE acc.flags
                flags2 == IF "mobility_penalty" \in DOMAIN t /\ t["mobility_penalty"]
                          THEN SetAdd(flags1, "stairs_high") ELSE flags1
            IN [traits |-> traits1, flags |-> flags2]

\* for (const optId of selected) applyOption(q, optId, traits, flags)
RECURSIVE ApplySelected(_, _, _, _)
ApplySelected(q, selected, i, acc) ==
    IF i > Len(selected) THEN acc
    ELSE ApplySelected(q, selected, i + 1, applyOption(q, Single(selected[i]), acc))

\* for (const q of questions) { ... }
RECURSIVE ApplyQuestions(_, _, _, _)
ApplyQuestions(qs, ans, i, acc) ==
    IF i > Len(qs) THEN acc
    ELSE LET q == qs[i]
             next == IF q.id \notin DOMAIN ans THEN acc
                     ELSE IF q.type = "multi"
                          THEN ApplySelected(q, IF ans[q.id].arr THEN ans[q.id].v ELSE <<>>,
                                             1, acc)
                          ELSE applyOption(q, ans[q.id], acc)
         IN ApplyQuestions(qs, ans, i + 1, next)

\* Array.isArray(a) && a.includes(x)
ArrIncludes(ans, key, x) ==
    key \in DOMAIN ans /\ ans[key].arr /\ x \in Range(ans[key].v)

\* a === x
AnswerIs(ans, key, x) == key \in DOMAIN ans /\ StrictEq(x, ans[key])

RECURSIVE AddAll(_, _, _)
AddAll(flags, rules, i) ==
    IF i > Len(rules) THEN flags
    ELSE AddAll(IF rules[i][1] THEN SetAdd(flags, rules[i][2]) ELSE flags, rules, i + 1)

deriveFlags(ans, flags) ==
    AddAll(flags,
           << <<ArrIncludes(ans, "tolerances", "barking"), "noise_sensitive">>,
              <<ArrIncludes(ans, "tolerances", "shedding"), "shedding_sensitive">>,
              <<ArrIncludes(ans, "tolerances", "grooming"), "grooming_sensitive">>,
              <<AnswerIs(ans, "stairs_elevator", "stairs_high"), "stairs_high">>,
              <<AnswerIs(ans, "children", "kids_home"), "kids_home">>,
              <<AnswerIs(ans, "hosting", "guests_often"), "frequent_guests">>,
              <<ArrIncludes(ans, "other_pets", "cat"), "cat_home">>,
              <<AnswerIs(ans, "alone_time", "alone_very_long"), "high_alone_time">>,
              <<AnswerIs(ans, "training_commitment", "low"), "low_training_commitment">> >>,
           1)

\* Mutant: the builder throws (no profile is returned) on an answer that has
\* not the shape of its question.
buildUserProfileFromState_Strict(qs, ans) ==
    LET applied == ApplyQuestions(qs, ans, 1, [traits |-> neutralTraits, flags |-> <<>>])
        flags == deriveFlags(ans, applied.flags)
        traits == [k \in DOMAIN applied.traits |-> clamp(applied.traits[k], 0, 4)]
        fits == \A i \in 1..Len(qs) :
                  qs[i].id \in DOMAIN ans => (ans[qs[i].id].arr <=> qs[i].type = "multi")
    IN [built |-> fits, traits |-> traits, flags |-> flags, answers |-> ans]

buildUserProfileFromState(qs, ans) ==
    LET applied == ApplyQuestions(qs, ans, 1, [traits |-> neutralTraits, flags |-> <<>>])
        flags == deriveFlags(ans, applied.flags)
        traits == [k \in DOMAIN applied.traits |-> clamp(applied.traits[k], 0, 4)]
    IN [built |-> TRUE, traits |-> traits, flags |-> flags, answers |-> ans]

NoProfile == [built |-> FALSE, traits |-> neutralTraits, flags |-> <<>>,
              answers |-> EmptyAnswers]


----------------------------------------------------------------------------
(* state.js: the quiz state and its persistence.                           *)

\* questions.findIndex((q) => q.id === questionId), 0-based; -1 when none.
findIndex(qs, questionId) ==
    LET hits == {i \in 1..Len(qs) : qs[i].id = questionId}
    IN IF hits = {} THEN -1 ELSE SetMin(hits) - 1

\* The quizIndex bumpIndexIfCurrent leaves behind.
bumpIndexIfCurrent(qs, index, questionId) ==
    LET idx == findIndex(qs, questionId)
    IN IF idx = -1 THEN index
       ELSE IF index < idx THEN idx ELSE index

\* localStorage.setItem(STORAGE_KEY, JSON.stringify(_state))
persist(index, ans) == [present |-> TRUE, quizIndex |-> index, answers |-> ans]

Put(ans, key, val) ==
    [k \in DOMAIN ans \cup {key} |-> IF k = key THEN val ELSE ans[k]]

\* optionIds.map((x) => String(x)).filter(Boolean)
RECURSIVE FilterNonEmpty(_)
FilterNonEmpty(l) ==
    IF l = <<>> THEN <<>>
    ELSE IF Head(l) = "" THEN FilterNonEmpty(Tail(l))
         ELSE <<Head(l)>> \o FilterNonEmpty(Tail(l))

\* Array.from(new Set(arr)): the first occurrence of each element, in order.
RECURSIVE Uniq(_)
Uniq(l) ==
    IF l = <<>> THEN <<>>
    ELSE LET init == Uniq(SubSeq(l, 1, Len(l) - 1))
         IN SetAdd(init, l[Len(l)])

\* No profile is alive while a handler of the quiz runs: the profile is a
\* local of the request that built it.
Idle == ~user.built

setAnswer(questionId, optionId) ==
    LET qid == Trim(questionId)
        oid == Trim(optionId)
    IN /\ Idle
       /\ IF qid = "" \/ oid = ""
          THEN UNCHANGED <<answers, quizIndex, storage>>
          ELSE /\ Cardinality(DOMAIN answers \cup {qid}) <= MaxAnswered
               /\ answers' = Put(answers, qid, Single(oid))
               /\ quizIndex' = bumpIndexIfCurrent(questions, quizIndex, qid)
               /\ storage' = persist(quizIndex', answers')
       /\ UNCHANGED <<questions, user, archetype, outcome, filtered, matchVars, appVars>>

setManyAnswers(questionId, optionIds) ==
    LET qid == Trim(questionId)
        uniq == Uniq(FilterNonEmpty(optionIds))
    IN /\ Idle
       /\ IF qid = ""
          THEN UNCHANGED <<answers, quizIndex, storage>>
          ELSE /\ Cardinality(DOMAIN answers \cup {qid}) <= MaxAnswered
               /\ answers' = Put(answers, qid, Many(uniq))
               /\ quizIndex' = bumpIndexIfCurrent(questions, quizIndex, qid)
               /\ storage' = persist(quizIndex', answers')
       /\ UNCHANGED <<questions, user, archetype, outcome, filtered, matchVars, appVars>>

resetQuiz ==
    /\ Idle
    /\ answers' = EmptyAnswers
    /\ quizIndex' = 0
    /\ storage' = persist(0, EmptyAnswers)
    /\ UNCHANGED <<questions, user, archetype, outcome, filtered, matchVars, appVars>>

\* const user = buildUserProfileFromState(state)
BuildProfile ==
    /\ Idle
    /\ user' = buildUserProfileFromState(questions, answers)
    /\ UNCHANGED <<questions, quizIndex, answers, storage, archetype, outcome, filtered, matchVars, appVars>>

\* The handler that built the profile returns: its locals are gone.
DropProfile ==
    /\ user.built
    /\ user' = NoProfile
    /\ UNCHANGED <<questions, quizIndex, answers, storage, archetype, outcome, filtered, matchVars, appVars>>

----------------------------------------------------------------------------
(* Question catalogs (data/questions.v1.json is loaded at run time; these  *)
(* are well-formed catalogs: unique question ids, unique option ids per    *)
(* question, type single or multi, at least 2 options, targets in 0..4).   *)

Opt(id, traits) == [id |-> id, traits |-> traits]
Q(id, type, options) == [id |-> id, type |-> type, options |-> options]
NoTraits == [k \in {} |-> 0]

QuizCatalog ==
    << Q("alone_time", "single",
         << Opt("alone_short", [T5 |-> 4]),
            Opt("alone_very_long", [T5 |-> 0, risk |-> "high_alone_time"]) >>),
       Q("activity", "single",
         << Opt("couch", [T1 |-> 0, T5 |-> 3]),
            Opt("athlete", [T1 |-> 4, risk |-> "high_energy_need"]) >>),
       Q("tolerances", "multi",
         << Opt("barking", [T6 |-> 1]),
            Opt("shedding", [T7 |-> 1]),
            Opt("grooming", [T8 |-> 1, T7 |-> 3]) >>),
       Q("stairs_elevator", "single",
         << Opt("elevator", [T9 |-> 3]),
            Opt("stairs_high", [T9 |-> 1, mobility_penalty |-> TRUE]) >>),
       Q("home_type", "single",
         << Opt("house", [T9 |-> 4, T1 |-> 3]),
            Opt("walkup", [T9 |-> 0, mobility_penalty |-> TRUE]) >>),
       Q("children", "single",
         << Opt("no_kids", [T10 |-> 1]),
            Opt("kids_home", [T10 |-> 4]) >>),
       Q("hosting", "single",
         << Opt("guests_rare", [T3 |-> 1]),
            Opt("guests_often", [T3 |-> 4, T10 |-> 3]) >>),
       Q("other_pets", "multi",
         << Opt("cat", [T4 |-> 4]),
            Opt("dog", [T4 |-> 3, risk |-> "dog_home"]),
            Opt("none", NoTraits) >>) >>

\* An earlier version of the catalog: other questions first, fewer options,
\* tolerances still a single-answer question.
OlderCatalog ==
    << Q("other_pets", "multi",
         << Opt("dog", [T4 |-> 2]),
            Opt("cat", [T4 |-> 4, T6 |-> 3]) >>),
       Q("hosting", "single",
         << Opt("guests_rare", [T3 |-> 0]),
            Opt("guests_some", [T3 |-> 2]) >>),
       Q("tolerances", "single",
         << Opt("barking", [T6 |-> 0]),
            Opt("shedding", [T7 |-> 0]) >>),
       Q("activity", "single",
         << Opt("couch", [T1 |-> 1]),
            Opt("athlete", [T1 |-> 4, T5 |-> 1, risk |-> "high_energy_need"]) >>),
       Q("alone_time", "single",
         << Opt("alone_short", [T5 |-> 4]),
            Opt("alone_very_long", [T5 |-> 0]) >>) >>

\* { "questions": [] }: validateQuestions accepts a catalog without questions.
EmptyCatalog == <<>>

QuestionCatalogs == {QuizCatalog, OlderCatalog, EmptyCatalog}

\* The ids the quiz handlers are called with, per question id.
AnswerIds ==
    [alone_time |-> {"alone_short", "alone_very_long"},
     activity |-> {"couch", "athlete", "retired_option"},
     tolerances |-> {"barking", "shedding", "grooming"},
     stairs_elevator |-> {"elevator", "stairs_high"},
     home_type |-> {"house", "walkup"},
     children |-> {"no_kids", "kids_home"},
     hosting |-> {"guests_rare", "guests_often"},
     other_pets |-> {"cat", "dog"},
     training_commitment |-> {"low"},
     retired_question |-> {"couch"}]

AnswerQids == DOMAIN AnswerIds
\* The questions setManyAnswers is called for.
ManyQids == {"tolerances", "other_pets", "alone_time"}

----------------------------------------------------------------------------
(* The profile builder over the quiz state.                                *)

NoArchetype == [id |-> ""]
NoOutcome == [done |-> FALSE]
NoFiltered == [done |-> FALSE]
\* let _archetypes = []
NoArchetypes == <<>>
NoScored == [done |-> FALSE]
NoPenalised == <<>>
NoResults == [screen |-> "none"]
\* Nothing is in #app yet.
NoScreen == [route |-> "none"]
\* Neither a loader nor hydrateState has been called.
NoCall == [fn |-> "none", threw |-> FALSE]

\* initState() at boot, for each catalog the loader may have supplied.
InitProfile ==
    /\ questions \in QuestionCatalogs
    /\ quizIndex = 0
    /\ answers = EmptyAnswers
    /\ storage = persist(0, EmptyAnswers)
    /\ user = NoProfile
    /\ archetype = NoArchetype
    /\ outcome = NoOutcome
    /\ filtered = NoFiltered
    /\ loadedArchetypes = NoArchetypes
    /\ scored = NoScored
    /\ penalised = NoPenalised
    /\ results = NoResults
    /\ previousResults = NoResults
    /\ screen = NoScreen
    /\ hasState = TRUE
    /\ called = NoCall

\* Ids that are empty once trimmed.
BlankIds == {"", " "}

NextProfile ==
    \/ \E q \in AnswerQids : \E o \in AnswerIds[q] : setAnswer(q, o)
    \/ \E q \in ManyQids : \E l \in SeqsUpTo(AnswerIds[q], MaxSel) : setManyAnswers(q, l)
    \/ \E q \in AnswerQids \cup BlankIds : \E o \in BlankIds \cup {"couch"} :
         (q \in BlankIds \/ o \in BlankIds) /\ setAnswer(q, o)
    \/ \E q \in ManyQids \cup BlankIds : \E l \in SeqsUpTo({"cat", ""}, MaxSel) :
         (q \in BlankIds \/ "" \in Range(l)) /\ setManyAnswers(q, l)
    \/ resetQuiz
    \/ BuildProfile
    \/ DropProfile

SpecProfile == InitProfile /\ [][NextProfile]_vars

----------------------------------------------------------------------------
(* match/rules.js: hard filters and soft penalties.                        *)

\* An archetype as validateArchetypes admits it: all ten traits in 0..4.
Archetype(id, overrides, tags, risks, size) ==
    [id |-> id,
     traits |-> [k \in TRAITS |-> IF k \in DOMAIN overrides THEN overrides[k] ELSE 2],
     tags |-> tags, risks |-> risks, size |-> size]

REASON_R1 == "Long alone time without support increases risk of distress."
REASON_R2 == "Cat at home + beginner/low training increases prey-drive risk."
REASON_R3 == "Noise-sensitive household is a poor fit for vocal profiles."
REASON_R4 == "Low shedding preference conflicts with heavy-shedding profiles."
REASON_R5 == "High-difficulty, high-energy profiles are risky for first-time families with lots of guests."

PENALTY_ALONE == [key |-> "alone_time_no_support", delta |-> -6]
PENALTY_NOISE == [key |-> "noise_sensitive", delta |-> -8]
PENALTY_STAIRS == [key |-> "stairs_high_mobility", delta |-> -5]

\* Mutant: an array counts as support only when it holds no "none" at all.
hasAnySupport_NoNone(ans) ==
    IF "support_system" \notin DOMAIN ans THEN FALSE
    ELSE LET s == ans["support_system"]
         IN IF s.arr THEN "none" \notin Range(s.v)
            ELSE s.v[1] # "" /\ s.v[1] # "none"

hasAnySupport(ans) ==
    IF "support_system" \notin DOMAIN ans THEN FALSE
    ELSE LET s == ans["support_system"]
         IN IF s.arr THEN \E x \in Range(s.v) : x # "" /\ x # "none"
            ELSE s.v[1] # "" /\ s.v[1] # "none"

\* userTraits.Tn ?? 2, archetype.traits?.Tn ?? 2
TraitOr2(traits, k) == IF k \in DOMAIN traits THEN traits[k] ELSE 2
\* userTraits.Tn === 0
TraitIs0(traits, k) == k \in DOMAIN traits /\ traits[k] = 0

\* The running evaluation: ret says whether a return statement was reached.
Exclude(st, reason) ==
    [ret |-> TRUE, allowed |-> FALSE, reasons |-> Append(st.reasons, reason),
     penalties |-> st.penalties]
Penalise(st, penalty) == [st EXCEPT !.penalties = Append(st.penalties, penalty)]

\* Mutant: R1 does not look at the support system.
RuleR1_IgnoresSupport(a, u, st) ==
    LET highAlone == "high_alone_time" \in Range(u.flags) \/ TraitIs0(u.traits, "T5")
    IN IF st.ret \/ ~highAlone THEN st
       ELSE IF "separation_sensitivity" \in Range(a.risks) \/ "high_energy" \in Range(a.tags)
            THEN Exclude(st, REASON_R1)
            ELSE Penalise(st, PENALTY_ALONE)

RuleR1(a, u, st) ==
    LET highAlone == "high_alone_time" \in Range(u.flags) \/ TraitIs0(u.traits, "T5")
        hasSupport == hasAnySupport(u.answers)
    IN IF st.ret \/ ~(highAlone /\ ~hasSupport) THEN st
       ELSE IF "separation_sensitivity" \in Range(a.risks) \/ "high_energy" \in Range(a.tags)
            THEN Exclude(st, REASON_R1)
            ELSE Penalise(st, PENALTY_ALONE)

\* Mutant: R2 adds a soft penalty when it does not exclude.
RuleR2_SoftPenalty(a, u, st) ==
    LET catHome == "cat_home" \in Range(u.flags)
        lowExperience == TraitOr2(u.traits, "T2") <= 1
        lowTraining == "low_training_commitment" \in Range(u.flags)
    IN IF st.ret \/ ~(catHome /\ (lowExperience \/ lowTraining)) THEN st
       ELSE IF "high_prey_drive" \in Range(a.risks) THEN Exclude(st, REASON_R2)
            ELSE Penalise(st, [key |-> "cat_home_low_experience", delta |-> -4])

RuleR2(a, u, st) ==
    LET catHome == "cat_home" \in Range(u.flags)
        lowExperience == TraitOr2(u.traits, "T2") <= 1
        lowTraining == "low_training_commitment" \in Range(u.flags)
    IN IF st.ret \/ ~(catHome /\ (lowExperience \/ lowTraining)) THEN st
       ELSE IF "high_prey_drive" \in Range(a.risks) THEN Exclude(st, REASON_R2)
            ELSE st

\* Mutant: the soft penalty needs an archetype T6 above 3.
RuleR3_Above3(a, u, st) ==
    LET noiseSensitive == "noise_sensitive" \in Range(u.flags)
                          \/ TraitOr2(u.traits, "T6") = 0
    IN IF st.ret \/ ~noiseSensitive THEN st
       ELSE IF Range(a.risks) \cap {"noise", "vocal", "barking"} # {}
            THEN Exclude(st, REASON_R3)
            ELSE IF TraitOr2(a.traits, "T6") > 3 THEN Penalise(st, PENALTY_NOISE)
                 ELSE st

\* Mutant: the soft penalty is pushed before the exclusion is tested.
RuleR3_PenaltyFirst(a, u, st) ==
    LET noiseSensitive == "noise_sensitive" \in Range(u.flags)
                          \/ TraitOr2(u.traits, "T6") = 0
        st1 == IF TraitOr2(a.traits, "T6") >= 3 THEN Penalise(st, PENALTY_NOISE) ELSE st
    IN IF st.ret \/ ~noiseSensitive THEN st
       ELSE IF Range(a.risks) \cap {"noise", "vocal", "barking"} # {}
            THEN Exclude(st1, REASON_R3)
            ELSE st1

RuleR3(a, u, st) ==
    LET noiseSensitive == "noise_sensitive" \in Range(u.flags)
                          \/ TraitOr2(u.traits, "T6") = 0
    IN IF st.ret \/ ~noiseSensitive THEN st
       ELSE IF Range(a.risks) \cap {"noise", "vocal", "barking"} # {}
            THEN Exclude(st, REASON_R3)
            ELSE IF TraitOr2(a.traits, "T6") >= 3 THEN Penalise(st, PENALTY_NOISE)
                 ELSE st

\* Mutant: R4 looks at the archetype's risks alone.
RuleR4_RiskOnly(a, u, st) ==
    LET sheddingSensitive == "shedding_sensitive" \in Range(u.flags)
                             \/ TraitOr2(u.traits, "T7") = 0
    IN IF st.ret \/ ~sheddingSensitive THEN st
       ELSE IF "high_shedding" \in Range(a.risks) THEN Exclude(st, REASON_R4)
            ELSE st

RuleR4(a, u, st) ==
    LET sheddingSensitive == "shedding_sensitive" \in Range(u.flags)
                             \/ TraitOr2(u.traits, "T7") = 0
    IN IF st.ret \/ ~sheddingSensitive THEN st
       ELSE IF "high_shedding" \in Range(a.risks) \/ TraitOr2(a.traits, "T7") >= 3
            THEN Exclude(st, REASON_R4)
            ELSE st

RuleR5(a, u, st) ==
    LET kidsHome == AnswerIs(u.answers, "children", "kids_home")
                    \/ "kids_home" \in Range(u.flags)
        frequentHosting == AnswerIs(u.answers, "hosting", "guests_often")
                           \/ "frequent_guests" \in Range(u.flags)
        firstTime == AnswerIs(u.answers, "experience", "first_time")
                     \/ TraitOr2(u.traits, "T2") = 0
        veryHighDifficulty == TraitOr2(a.traits, "T2") >= 3
        veryHighEnergy == TraitOr2(a.traits, "T1") >= 3
    IN IF st.ret \/ ~(kidsHome /\ frequentHosting /\ firstTime) THEN st
       ELSE IF veryHighDifficulty /\ veryHighEnergy THEN Exclude(st, REASON_R5)
            ELSE st

\* Mutant: any size list holding large counts.
RuleR6_AnyLarge(a, u, st) ==
    LET stairsHigh == "stairs_high" \in Range(u.flags)
                      \/ AnswerIs(u.answers, "stairs_elevator", "stairs_high")
        isLarge == "large" \in Range(a.size)
    IN IF st.ret \/ ~stairsHigh THEN st
       ELSE IF isLarge \/ a.id = "senior_dog" THEN Penalise(st, PENALTY_STAIRS)
            ELSE st

RuleR6(a, u, st) ==
    LET stairsHigh == "stairs_high" \in Range(u.flags)
                      \/ AnswerIs(u.answers, "stairs_elevator", "stairs_high")
        isLargeOnly == a.size = <<"large">>
    IN IF st.ret \/ ~stairsHigh THEN st
       ELSE IF isLargeOnly \/ a.id = "senior_dog" THEN Penalise(st, PENALTY_STAIRS)
            ELSE st

Started == [ret |-> FALSE, allowed |-> TRUE, reasons |-> <<>>, penalties |-> <<>>]
Returned(st) == [allowed |-> st.allowed, reasons |-> st.reasons, penalties |-> st.penalties]

\* Mutant: the R4 block is placed before the R3 block.
evaluateArchetypeRules_R4First(a, u) ==
    Returned(RuleR6(a, u, RuleR5(a, u, RuleR3(a, u, RuleR4(a, u,
             RuleR2(a, u, RuleR1(a, u, Started)))))))

evaluateArchetypeRules(a, u) ==
    Returned(RuleR6(a, u, RuleR5(a, u, RuleR4(a, u, RuleR3(a, u,
             RuleR2(a, u, RuleR1(a, u, Started)))))))

\* for (const archetype of archetypes) { ... allowed.push / blocked.push }
RECURSIVE FilterFrom(_, _, _, _)
FilterFrom(archetypes, u, i, acc) ==
    IF i > Len(archetypes) THEN acc
    ELSE LET res == evaluateArchetypeRules(archetypes[i], u)
         IN FilterFrom(archetypes, u, i + 1,
              IF res.allowed
              THEN [acc EXCEPT !.allowed =
                      Append(@, [archetype |-> archetypes[i], reasons |-> res.reasons,
                                 penalties |-> res.penalties])]
              ELSE [acc EXCEPT !.blocked =
                      Append(@, [archetype |-> archetypes[i], reasons |-> res.reasons])])

\* Mutant: the blocked archetypes are handed on as allowed too.
filterArchetypes_BlockedAllowed(archetypes, u) ==
    LET f == FilterFrom(archetypes, u, 1, [allowed |-> <<>>, blocked |-> <<>>])
    IN [allowed |-> f.allowed \o
                    [i \in 1..Len(f.blocked) |->
                       [archetype |-> f.blocked[i].archetype, reasons |-> <<>>,
                        penalties |-> <<>>]],
        blocked |-> f.blocked]

filterArchetypes(archetypes, u) ==
    FilterFrom(archetypes, u, 1, [allowed |-> <<>>, blocked |-> <<>>])

----------------------------------------------------------------------------
(* The rule engine over built profiles.                                    *)

\* Largest number of answered questions of a profile handed to the rules.
MaxRuleAnswers == 4

\* A well-formed catalog with the questions the rules read.
RulesCatalog ==
    << Q("alone_time", "single",
         << Opt("alone_short", [T5 |-> 4]),
            Opt("alone_very_long", [T5 |-> 1]) >>),
       Q("support_system", "single",
         << Opt("none", NoTraits),
            Opt("family", [T5 |-> 3]) >>),
       Q("other_pets", "multi",
         << Opt("cat", [T4 |-> 4]),
            Opt("dog", [T4 |-> 3]) >>),
       Q("experience", "single",
         << Opt("first_time", [T2 |-> 0]),
            Opt("experienced", [T2 |-> 3]) >>),
       Q("tolerances", "multi",
         << Opt("barking", [T6 |-> 1]),
            Opt("shedding", [T7 |-> 1]) >>),
       Q("children", "single",
         << Opt("no_kids", [T10 |-> 1]),
            Opt("kids_home", [T10 |-> 4]) >>),
       Q("hosting", "single",
         << Opt("guests_rare", [T3 |-> 1]),
            Opt("guests_often", [T3 |-> 4]) >>),
       Q("stairs_elevator", "single",
         << Opt("elevator", [T9 |-> 3]),
            Opt("stairs_high", [T9 |-> 1]) >>),
       Q("lifestyle", "single",
         << Opt("away_all_day", [T5 |-> 0]),
            Opt("light_sleeper", [T6 |-> 0]),
            Opt("allergic", [T7 |-> 0]),
            Opt("never_had_dog", [T2 |-> 0]),
            Opt("had_dog_once", [T2 |-> 1]) >>) >>

\* The answers a profile handed to the rules may hold, per question id.
RuleChoices ==
    [alone_time |-> {Single("alone_very_long")},
     support_system |-> {Single("none"), Single("family"), Many(<<>>),
                         Many(<<"none">>), Many(<<"none", "family">>)},
     other_pets |-> {Many(<<"cat">>)},
     training_commitment |-> {Single("low")},
     experience |-> {Single("first_time")},
     tolerances |-> {Many(<<"barking">>), Many(<<"shedding">>),
                     Many(<<"barking", "shedding">>)},
     children |-> {Single("kids_home")},
     hosting |-> {Single("guests_often")},
     stairs_elevator |-> {Single("stairs_high")},
     lifestyle |-> {Single("away_all_day"), Single("light_sleeper"), Single("allergic"),
                    Single("never_had_dog"), Single("had_dog_once")}]

\* The answers mappings with n entries drawn from RuleChoices.
RECURSIVE AnswersOfSize(_)
AnswersOfSize(n) ==
    IF n = 0 THEN {EmptyAnswers}
    ELSE UNION {UNION {{Put(a, key, val) : val \in RuleChoices[key]} :
                       key \in DOMAIN RuleChoices \ DOMAIN a} :
                a \in AnswersOfSize(n - 1)}

RuleAnswers == UNION {AnswersOfSize(n) : n \in 0..MaxRuleAnswers}

\* The quizIndex answering the questions of ans in catalog order leaves.
IndexAfter(qs, ans) ==
    LET idxs == {findIndex(qs, key) : key \in DOMAIN ans} \ {-1}
    IN IF idxs = {} THEN 0 ELSE CHOOSE x \in idxs : \A y \in idxs : y <= x

\* An archetype catalog as loadArchetypes admits it: unique ids, ten traits.
ArchetypeCatalog ==
    << Archetype("calm_companion", NoTraits, <<"low_energy">>, <<>>, <<"small">>),
       Archetype("velcro_dog", NoTraits, <<>>, <<"separation_sensitivity">>, <<"small">>),
       Archetype("sport_dog", [T1 |-> 4, T2 |-> 3], <<"high_energy">>, <<>>,
                 <<"medium", "large">>),
       Archetype("sighthound", NoTraits, <<>>, <<"high_prey_drive">>, <<"medium">>),
       Archetype("spitz", [T6 |-> 4, T7 |-> 4], <<>>, <<"vocal", "high_shedding">>,
                 <<"medium">>),
       Archetype("terrier", [T6 |-> 3], <<>>, <<"barking", "high_prey_drive">>, <<"small">>),
       Archetype("hound", NoTraits, <<>>, <<"noise">>, <<"medium">>),
       Archetype("watchdog", [T6 |-> 3], <<>>, <<>>, <<"medium">>),
       Archetype("double_coat", NoTraits, <<>>, <<"high_shedding">>, <<"medium">>),
       Archetype("fluffy", [T7 |-> 3], <<>>, <<>>, <<"small">>),
       Archetype("working_dog", [T1 |-> 3, T2 |-> 4], <<>>, <<>>, <<"large">>),
       Archetype("gentle_giant", NoTraits, <<>>, <<>>, <<"large">>),
       Archetype("senior_dog", [T1 |-> 1], <<>>, <<>>, <<"medium">>),
       Archetype("velcro_hunter", NoTraits, <<>>,
                 <<"separation_sensitivity", "high_prey_drive", "vocal">>, <<"medium">>),
       Archetype("husky", [T1 |-> 4, T2 |-> 4, T6 |-> 4, T7 |-> 4], <<"high_energy">>,
                 <<"high_shedding", "vocal">>, <<"large">>),
       Archetype("loud_giant", [T6 |-> 4, T1 |-> 3, T2 |-> 3], <<>>, <<>>, <<"large">>),
       Archetype("shedding_guard", [T6 |-> 3, T7 |-> 4], <<>>, <<"high_prey_drive">>,
                 <<"large">>) >>

\* A quiz state holding some answers, against the rules' catalog.
InitRules ==
    /\ questions = RulesCatalog
    /\ answers \in RuleAnswers
    /\ quizIndex = IndexAfter(questions, answers)
    /\ storage = persist(quizIndex, answers)
    /\ user = NoProfile
    /\ archetype = NoArchetype
    /\ outcome = NoOutcome
    /\ filtered = NoFiltered
    /\ loadedArchetypes = ArchetypeCatalog
    /\ scored = NoScored
    /\ penalised = NoPenalised
    /\ results = NoResults
    /\ previousResults = NoResults
    /\ screen = NoScreen
    /\ hasState = TRUE
    /\ called = NoCall

\* The rules are pure: a result depends on its arguments alone, and the
\* model holds the result of one call at a time.
Evaluate(a) ==
    /\ user.built
    /\ ~filtered.done
    /\ ~outcome.done
    /\ archetype' = a
    /\ outcome' = [done |-> TRUE] @@ evaluateArchetypeRules(a, user)
    /\ UNCHANGED <<questions, quizIndex, answers, storage, user, filtered, matchVars, appVars>>

\* const { allowed, blocked } = filterArchetypes(archetypes, user)
Filter ==
    /\ user.built
    /\ ~filtered.done
    /\ ~outcome.done
    /\ filtered' = [done |-> TRUE] @@ filterArchetypes(loadedArchetypes, user)
    /\ UNCHANGED <<questions, quizIndex, answers, storage, user, archetype, outcome, matchVars, appVars>>

NextRules ==
    \/ BuildProfile
    \/ \E i \in 1..Len(ArchetypeCatalog) : Evaluate(ArchetypeCatalog[i])
    \/ Filter

SpecRules == InitRules /\ [][NextRules]_vars

----------------------------------------------------------------------------
(* Vocabulary of the profile claims, stated on the answers and the catalog *)
(* and not through the builder's loops.                                    *)

OptionIds(q) == {q.options[n].id : n \in 1..Len(q.options)}
OptionOf(q, id) == CHOOSE o \in Range(q.options) : o.id = id

\* The ids a question's recorded answer selects, by position: the single
\* id of a single-answer question, the list of a multi-answer question.
Selection(q, ans) ==
    IF q.id \notin DOMAIN ans THEN <<>>
    ELSE IF q.type = "multi"
         THEN (IF ans[q.id].arr THEN ans[q.id].v ELSE <<>>)
         ELSE (IF ans[q.id].arr THEN <<>> ELSE ans[q.id].v)

\* <<i, j>>: question i of the catalog resolves, at position j of its
\* selection, an option of that question.
Resolved(qs, ans) ==
    UNION {{<<i, j>> : j \in {n \in 1..Len(Selection(qs[i], ans)) :
                                Selection(qs[i], ans)[n] \in OptionIds(qs[i])}} :
           i \in 1..Len(qs)}

ResolvedOption(qs, ans, a) == OptionOf(qs[a[1]], Selection(qs[a[1]], ans)[a[2]])

AppliedAfter(a, b) == a[1] > b[1] \/ (a[1] = b[1] /\ a[2] > b[2])

Defining(qs, ans, k) ==
    {a \in Resolved(qs, ans) : k \in DOMAIN ResolvedOption(qs, ans, a).traits}

\* The flags the resolved options carry.
OptionFlags(qs, ans) ==
    {ResolvedOption(qs, ans, a).traits["risk"] :
        a \in {b \in Resolved(qs, ans) :
                 "risk" \in DOMAIN ResolvedOption(qs, ans, b).traits}}
    \cup (IF \E a \in Resolved(qs, ans) :
                /\ "mobility_penalty" \in DOMAIN ResolvedOption(qs, ans, a).traits
                /\ ResolvedOption(qs, ans, a).traits["mobility_penalty"]
          THEN {"stairs_high"} ELSE {})

\* The derived flags one raw answer (key, val) gives rise to.
RawFlags(key, val) ==
    (IF key = "tolerances" /\ val.arr /\ "barking" \in Range(val.v)
     THEN {"noise_sensitive"} ELSE {})
    \cup (IF key = "tolerances" /\ val.arr /\ "shedding" \in Range(val.v)
          THEN {"shedding_sensitive"} ELSE {})
    \cup (IF key = "tolerances" /\ val.arr /\ "grooming" \in Range(val.v)
          THEN {"grooming_sensitive"} ELSE {})
    \cup (IF key = "stairs_elevator" /\ val = Single("stairs_high")
          THEN {"stairs_high"} ELSE {})
    \cup (IF key = "children" /\ val = Single("kids_home") THEN {"kids_home"} ELSE {})
    \cup (IF key = "hosting" /\ val = Single("guests_often")
          THEN {"frequent_guests"} ELSE {})
    \cup (IF key = "other_pets" /\ val.arr /\ "cat" \in Range(val.v)
          THEN {"cat_home"} ELSE {})
    \cup (IF key = "alone_time" /\ val = Single("alone_very_long")
          THEN {"high_alone_time"} ELSE {})
    \cup (IF key = "training_commitment" /\ val = Single("low")
          THEN {"low_training_commitment"} ELSE {})

\* ans without the entry of key.
Without(ans, key) == [k \in DOMAIN ans \ {key} |-> ans[k]]

\* The entry of key names a question the catalog does not have, or only
\* option ids its question does not have.
UnknownEntry(qs, ans, key) ==
    /\ key \in DOMAIN ans
    /\ \/ findIndex(qs, key) = -1
       \/ /\ ans[key].v # <<>>
          /\ Range(ans[key].v) \cap OptionIds(qs[findIndex(qs, key) + 1]) = {}

----------------------------------------------------------------------------
(* Claims on the profile builder (SpecProfile).                            *)

\* C1: the traits of a built profile have exactly the ten keys T1..T10,
\* each with a value in [0,4].
C1_TraitsTenKeysInRange ==
    user.built =>
        /\ DOMAIN user.traits = TRAITS
        /\ \A k \in TRAITS : user.traits[k] \in 0..4

\* A profile built from answers that resolved options moving traits to both
\* ends of the scale.
C1_Witness ==
    /\ user.built
    /\ \E k \in TRAITS : user.traits[k] = 0
    /\ \E k \in TRAITS : user.traits[k] = 4

\* C2: with an empty answers mapping every trait is 2 and flags is empty,
\* whatever the catalog.
C2_EmptyAnswersNeutral ==
    (user.built /\ DOMAIN user.answers = {}) =>
        /\ \A k \in TRAITS : user.traits[k] = 2
        /\ user.flags = <<>>

\* A profile built from no answers against a loaded catalog.
C2_Witness ==
    /\ user.built
    /\ DOMAIN user.answers = {}
    /\ questions = QuizCatalog

\* C3: a trait key takes the value of the resolved option applied last
\* (catalog order, then selection order) among those defining it, and stays
\* 2 when no resolved option defines it.
C3_LastAppliedWins ==
    user.built =>
        \A k \in TRAITS :
            LET D == Defining(questions, user.answers, k)
            IN IF D = {} THEN user.traits[k] = 2
               ELSE \E a \in D :
                      /\ \A b \in D : ~AppliedAfter(b, a)
                      /\ user.traits[k] =
                            ResolvedOption(questions, user.answers, a).traits[k]

\* Two options of one multi-answer question, and two options of different
\* questions, define the same key with different values.
C3_Witness ==
    /\ user.built
    /\ \E k \in TRAITS :
         \E a, b \in Defining(questions, user.answers, k) :
            /\ a[1] = b[1] /\ a[2] < b[2]
            /\ ResolvedOption(questions, user.answers, a).traits[k]
                 # ResolvedOption(questions, user.answers, b).traits[k]
    /\ \E k \in TRAITS :
         \E a, b \in Defining(questions, user.answers, k) :
            /\ a[1] < b[1]
            /\ ResolvedOption(questions, user.answers, a).traits[k]
                 # ResolvedOption(questions, user.answers, b).traits[k]

\* C4 as stated: an entry with an unknown question id or unknown option ids
\* changes neither the traits nor the flags of the profile.
C4_UnknownIdsChangeNothing ==
    user.built =>
        \A key \in DOMAIN user.answers :
            UnknownEntry(questions, user.answers, key) =>
                LET without == buildUserProfileFromState(questions,
                                                         Without(user.answers, key))
                IN /\ user.traits = without.traits
                   /\ Range(user.flags) = Range(without.flags)

\* C4, amended: such an entry leaves the traits alone, and adds to the flags
\* exactly the derived flags its own raw value gives rise to.
C4_UnknownIdsOnlyRawFlags ==
    user.built =>
        \A key \in DOMAIN user.answers :
            UnknownEntry(questions, user.answers, key) =>
                LET without == buildUserProfileFromState(questions,
                                                         Without(user.answers, key))
                IN /\ user.traits = without.traits
                   /\ Range(user.flags) =
                        Range(without.flags) \cup RawFlags(key, user.answers[key])

\* A profile built from one entry that resolves an option and one entry of
\* a known question whose option id that question does not have.
C4_Witness ==
    /\ user.built
    /\ Resolved(questions, user.answers) # {}
    /\ \E key \in DOMAIN user.answers :
         /\ UnknownEntry(questions, user.answers, key)
         /\ findIndex(questions, key) # -1

\* C5: the flags are, without duplicates, exactly the flags the resolved
\* options carry together with the derived flags of the raw answers.
C5_FlagsExactUnion ==
    user.built =>
        /\ NoDup(user.flags)
        /\ Range(user.flags) =
             OptionFlags(questions, user.answers)
             \cup UNION {RawFlags(key, user.answers[key]) : key \in DOMAIN user.answers}

\* An option's risk tag and a derived flag coincide, and an option's
\* mobility-penalty marker contributes stairs_high.
C5_Witness ==
    /\ user.built
    /\ OptionFlags(questions, user.answers)
         \cap UNION {RawFlags(key, user.answers[key]) : key \in DOMAIN user.answers} # {}
    /\ "stairs_high" \in OptionFlags(questions, user.answers)

----------------------------------------------------------------------------
(* Vocabulary of the rule claims: the rule table, read on the profile and  *)
(* the archetype of the last evaluation.                                   *)

UserFlag(u, f) == f \in Range(u.flags)

\* The raw support_system answer is present and is not, or does not
\* consist exclusively of, the sentinel none.
SupportRecorded(ans) ==
    /\ "support_system" \in DOMAIN ans
    /\ IF ans["support_system"].arr
       THEN \E x \in Range(ans["support_system"].v) : x # "none"
       ELSE ans["support_system"] # Single("none")

HighAlone(u) == UserFlag(u, "high_alone_time") \/ u.traits["T5"] = 0

Trigger(n, u) ==
    CASE n = 1 -> HighAlone(u) /\ ~SupportRecorded(u.answers)
      [] n = 2 -> UserFlag(u, "cat_home")
                  /\ (u.traits["T2"] <= 1 \/ UserFlag(u, "low_training_commitment"))
      [] n = 3 -> UserFlag(u, "noise_sensitive") \/ u.traits["T6"] = 0
      [] n = 4 -> UserFlag(u, "shedding_sensitive") \/ u.traits["T7"] = 0
      [] n = 5 -> /\ UserFlag(u, "kids_home")
                  /\ UserFlag(u, "frequent_guests")
                  /\ (\/ ("experience" \in DOMAIN u.answers
                            /\ u.answers["experience"] = Single("first_time"))
                      \/ u.traits["T2"] = 0)

Excludes(n, a) ==
    CASE n = 1 -> "separation_sensitivity" \in Range(a.risks)
                  \/ "high_energy" \in Range(a.tags)
      [] n = 2 -> "high_prey_drive" \in Range(a.risks)
      [] n = 3 -> \E r \in {"noise", "vocal", "barking"} : r \in Range(a.risks)
      [] n = 4 -> "high_shedding" \in Range(a.risks) \/ a.traits["T7"] >= 3
      [] n = 5 -> a.traits["T2"] >= 3 /\ a.traits["T1"] >= 3

ReasonOf(n) ==
    CASE n = 1 -> REASON_R1 [] n = 2 -> REASON_R2 [] n = 3 -> REASON_R3
      [] n = 4 -> REASON_R4 [] n = 5 -> REASON_R5

\* The rules among R1..R5 whose trigger and exclude conditions both hold.
Firing(u, a) == {n \in 1..5 : Trigger(n, u) /\ Excludes(n, a)}

HasPenalty(o, key, delta) ==
    \E i \in 1..Len(o.penalties) :
        o.penalties[i].key = key /\ o.penalties[i].delta = delta
NoPenalty(o, key) == \A i \in 1..Len(o.penalties) : o.penalties[i].key # key

----------------------------------------------------------------------------
(* Claims on the rule engine (SpecRules).                                  *)

\* C6: an outcome with allowed = false carries exactly one reason, the one
\* of the earliest rule among R1..R5 whose trigger and exclude conditions
\* both hold.
C6_FirstExclusionOnly ==
    (outcome.done /\ ~outcome.allowed) =>
        /\ Firing(user, archetype) # {}
        /\ outcome.reasons = <<ReasonOf(SetMin(Firing(user, archetype)))>>

\* An excluded archetype for which three rules fire, R1 not among them.
C6_Witness ==
    /\ outcome.done
    /\ ~outcome.allowed
    /\ Cardinality(Firing(user, archetype)) >= 3
    /\ 1 \notin Firing(user, archetype)

\* C7 as stated: the penalties of an excluded outcome are empty.
C7_ExcludedNoPenalties ==
    (outcome.done /\ ~outcome.allowed) => outcome.penalties = <<>>

\* C7, amended: the penalties of an excluded outcome are exactly the soft
\* penalties of the rules before the excluding one (R1's -6, R3's -8), and
\* are empty when R1 excludes.
C7_ExcludedKeepsEarlierPenalties ==
    (outcome.done /\ ~outcome.allowed) =>
        LET e == SetMin(Firing(user, archetype))
        IN outcome.penalties =
             (IF e > 1 /\ Trigger(1, user) THEN <<PENALTY_ALONE>> ELSE <<>>)
             \o (IF e > 3 /\ Trigger(3, user) /\ archetype.traits["T6"] >= 3
                 THEN <<PENALTY_NOISE>> ELSE <<>>)

\* An archetype excluded after R1 and R3 had each added a soft penalty.
C7_Witness ==
    /\ outcome.done
    /\ ~outcome.allowed
    /\ outcome.penalties = <<PENALTY_ALONE, PENALTY_NOISE>>

\* The answers of the scenario of C8.
C8_Scenario ==
    [tolerances |-> Many(<<"barking">>), alone_time |-> Single("alone_very_long"),
     support_system |-> Single("none")]

\* C8: when R1's trigger holds an archetype with risk separation_sensitivity
\* or tag high_energy is blocked with the alone-time reason and every other
\* archetype receives the penalty -6; otherwise R1 neither excludes nor
\* penalises. The scenario's answers block every separation_sensitivity
\* archetype with that reason.
C8_RuleR1 ==
    /\ outcome.done =>
         IF Trigger(1, user)
         THEN IF Excludes(1, archetype)
              THEN ~outcome.allowed /\ outcome.reasons = <<REASON_R1>>
              ELSE /\ Len(outcome.penalties) > 0
                   /\ outcome.penalties[1] = PENALTY_ALONE
                   /\ REASON_R1 \notin Range(outcome.reasons)
         ELSE /\ REASON_R1 \notin Range(outcome.reasons)
              /\ NoPenalty(outcome, "alone_time_no_support")
    /\ (filtered.done /\ user.answers = C8_Scenario) =>
         \A i \in 1..Len(ArchetypeCatalog) :
            "separation_sensitivity" \in Range(ArchetypeCatalog[i].risks) =>
                \E j \in 1..Len(filtered.blocked) :
                    /\ filtered.blocked[j].archetype = ArchetypeCatalog[i]
                    /\ filtered.blocked[j].reasons = <<REASON_R1>>

\* The scenario's answers have been filtered, with a blocked archetype.
C8_Witness ==
    /\ filtered.done
    /\ user.answers = C8_Scenario
    /\ \E j \in 1..Len(filtered.blocked) :
         "separation_sensitivity" \in Range(filtered.blocked[j].archetype.risks)

\* C9: for a user with high alone time, R1 acts (excludes or penalises)
\* exactly when no support system is recorded: the answer is absent, is
\* none, or is a list with no element other than none (the empty list
\* included).
C9_SupportRecorded ==
    (outcome.done /\ HighAlone(user)) =>
        ((REASON_R1 \in Range(outcome.reasons)
            \/ HasPenalty(outcome, "alone_time_no_support", -6))
         <=> ~SupportRecorded(user.answers))

\* R1 acts for a user whose support_system answer is the empty list.
C9_Witness ==
    /\ outcome.done
    /\ HighAlone(user)
    /\ "support_system" \in DOMAIN user.answers
    /\ user.answers["support_system"] = Many(<<>>)
    /\ HasPenalty(outcome, "alone_time_no_support", -6)

\* C10: when R3's trigger holds and no earlier rule excluded the archetype,
\* it is blocked if its risks contain noise, vocal or barking, and otherwise
\* receives the penalty -8 exactly when its T6 is at least 3; when the
\* trigger does not hold, or an earlier rule excluded, R3 neither excludes
\* nor penalises.
C10_RuleR3 ==
    outcome.done =>
        IF Trigger(3, user) /\ Firing(user, archetype) \cap {1, 2} = {}
        THEN IF Excludes(3, archetype)
             THEN ~outcome.allowed /\ outcome.reasons = <<REASON_R3>>
             ELSE /\ REASON_R3 \notin Range(outcome.reasons)
                  /\ (HasPenalty(outcome, "noise_sensitive", -8)
                        <=> archetype.traits["T6"] >= 3)
                  /\ (NoPenalty(outcome, "noise_sensitive")
                        <=> archetype.traits["T6"] < 3)
        ELSE /\ REASON_R3 \notin Range(outcome.reasons)
             /\ NoPenalty(outcome, "noise_sensitive")

\* An allowed archetype with T6 = 3 penalised for a user whose T6 is 0
\* without the noise_sensitive flag.
C10_Witness ==
    /\ outcome.done
    /\ outcome.allowed
    /\ ~UserFlag(user, "noise_sensitive")
    /\ user.traits["T6"] = 0
    /\ archetype.traits["T6"] = 3
    /\ HasPenalty(outcome, "noise_sensitive", -8)

----------------------------------------------------------------------------
(* match/scoring.js: weighted trait distance. A score is held in tenths    *)
(* (1000 stands for 100.0): every number the scorer and applyPenalties     *)
(* return went through round1.                                             *)

DEFAULT_WEIGHTS ==
    [T1 |-> 4, T2 |-> 4, T3 |-> 2, T4 |-> 2, T5 |-> 4,
     T6 |-> 2, T7 |-> 1, T8 |-> 1, T9 |-> 3, T10 |-> 3]

\* safeNum(obj[key], fallback) over objects whose values are finite
\* numbers: a missing key reads undefined, and Number(undefined) is NaN.
safeNum(obj, key, fallback) == IF key \in DOMAIN obj THEN obj[key] ELSE fallback

clamp01To04(n) == clamp(n, 0, 4)

\* Math.abs
Abs(n) == IF n < 0 THEN -n ELSE n

\* Mutant: Math.floor in place of Math.round.
round1_Floor(num, den) == (10 * num) \div den

\* Math.round(n * 10) / 10 for n = num / den (den > 0), in tenths;
\* Math.round rounds a half up.
round1(num, den) == (20 * num + den) \div (2 * den)

\* for (const key of TRAITS) { ... }, over the keys still to visit.
RECURSIVE ScoreLoop(_, _, _, _, _)
ScoreLoop(keys, userTraits, archetypeTraits, weights, acc) ==
    IF keys = {} THEN acc
    ELSE LET key == CHOOSE k \in keys : TRUE
             w == safeNum(weights, key, 0)
             u == clamp01To04(safeNum(userTraits, key, 2))
             a == clamp01To04(safeNum(archetypeTraits, key, 2))
             d == Abs(a - u)
         IN ScoreLoop(keys \ {key}, userTraits, archetypeTraits, weights,
              IF w <= 0 THEN acc
              ELSE [diffs |-> Put(acc.diffs, key, d),
                    penalty |-> acc.penalty + w * d,
                    maxPenalty |-> acc.maxPenalty + w * 4])

ScoreStart == [diffs |-> [k \in {} |-> 0], penalty |-> 0, maxPenalty |-> 0]

\* Mutant: the normalised distance is returned, not the fit.
scoreArchetype_Distance(userTraits, archetypeTraits, weights) ==
    LET acc == ScoreLoop(TRAITS, userTraits, archetypeTraits, weights, ScoreStart)
        den == IF acc.maxPenalty = 0 THEN 1 ELSE acc.maxPenalty
        raw == IF acc.maxPenalty = 0 THEN 0 ELSE 100 * acc.penalty
    IN [score |-> round1(clamp(raw, 0, 100 * den), den),
        maxPenalty |-> round1(acc.maxPenalty, 1),
        penalty |-> round1(acc.penalty, 1),
        diffs |-> acc.diffs]

\* raw = 100 * (1 - penalty / maxPenalty) is the fraction
\* 100 * (maxPenalty - penalty) / maxPenalty; clamp and round1 act on it.
scoreArchetype(userTraits, archetypeTraits, weights) ==
    LET acc == ScoreLoop(TRAITS, userTraits, archetypeTraits, weights, ScoreStart)
        den == IF acc.maxPenalty = 0 THEN 1 ELSE acc.maxPenalty
        raw == IF acc.maxPenalty = 0 THEN 0 ELSE 100 * (acc.maxPenalty - acc.penalty)
    IN [score |-> round1(clamp(raw, 0, 100 * den), den),
        maxPenalty |-> round1(acc.maxPenalty, 1),
        penalty |-> round1(acc.penalty, 1),
        diffs |-> acc.diffs]

----------------------------------------------------------------------------
(* The scorer over trait vectors and weight mappings.                      *)

\* Largest number of trait keys in which a vector handed to the scorer
\* departs from the neutral vector.
MaxDiff == 2

\* The keys in which the vectors depart: weights 4, 1 and 3 by default.
VariedKeys == {"T1", "T7", "T10"}

\* The vectors departing from the neutral one in at most n keys: a key holds
\* a value of the 0..4 scale or is missing.
RECURSIVE VectorsWithin(_)
VectorsWithin(n) ==
    IF n = 0 THEN {neutralTraits}
    ELSE LET prev == VectorsWithin(n - 1)
         IN prev \cup
            UNION {UNION {{[v EXCEPT ![k] = x] : x \in 0..4} \cup {Without(v, k)} :
                          k \in VariedKeys \cap DOMAIN v} :
                   v \in prev}

TraitVectors == VectorsWithin(MaxDiff)

\* The weight mappings handed to the scorer: the default, no positive
\* weight, a single key, negative weights, and a mapping whose maxPenalty
\* puts scores on a half of a tenth.
WeightChoices ==
    {DEFAULT_WEIGHTS,
     [k \in TRAITS |-> 0],
     [T1 |-> -1, T7 |-> 0],
     [T7 |-> 1],
     [T1 |-> 3, T7 |-> -2, T10 |-> 1]}

InitScoring ==
    /\ questions = EmptyCatalog
    /\ quizIndex = 0
    /\ answers = EmptyAnswers
    /\ storage = persist(0, EmptyAnswers)
    /\ user = NoProfile
    /\ archetype = NoArchetype
    /\ outcome = NoOutcome
    /\ filtered = NoFiltered
    /\ loadedArchetypes = NoArchetypes
    /\ scored = NoScored
    /\ penalised = NoPenalised
    /\ results = NoResults
    /\ previousResults = NoResults
    /\ screen = NoScreen
    /\ hasState = TRUE
    /\ called = NoCall

\* scoreArchetype is pure: the model holds the arguments and the result of
\* one call.
ScoreArchetype(userTraits, archetypeTraits, weights) ==
    /\ ~scored.done
    /\ scored' = [done |-> TRUE, userTraits |-> userTraits,
                  archetypeTraits |-> archetypeTraits, weights |-> weights,
                  res |-> scoreArchetype(userTraits, archetypeTraits, weights)]
    /\ UNCHANGED <<questions, quizIndex, answers, storage, user, archetype, outcome,
                   filtered, loadedArchetypes, penalised, results, appVars>>

NextScoring ==
    /\ ~scored.done
    /\ \E u \in TraitVectors : \E a \in TraitVectors : \E w \in WeightChoices :
          ScoreArchetype(u, a, w)

SpecScoring == InitScoring /\ [][NextScoring]_vars

----------------------------------------------------------------------------
(* Claims on the scorer (SpecScoring).                                     *)

\* The value the scorer reads for a key: a missing one counts as neutral.
ValueOr2(v, k) == IF k \in DOMAIN v THEN v[k] ELSE 2

\* The keys with a positive weight.
PositiveKeys(w) == {k \in TRAITS : k \in DOMAIN w /\ w[k] > 0}

\* Sum of w[k] * f over keys, f being the distance or the constant 4.
RECURSIVE WeightedSum(_, _, _, _, _)
WeightedSum(keys, w, u, a, worst) ==
    IF keys = {} THEN 0
    ELSE LET k == CHOOSE x \in keys : TRUE
         IN w[k] * (IF worst THEN 4 ELSE Abs(ValueOr2(u, k) - ValueOr2(a, k)))
            + WeightedSum(keys \ {k}, w, u, a, worst)

\* C14: scoreArchetype returns a score in [0,100] (0..1000 tenths); when
\* the user trait vector equals the archetype's and at least one weight is
\* positive the score is 100 and every reported diff is 0; neutral vectors
\* under the default weights score 100.0 with all ten diffs 0.
C14_ScoreInRange ==
    scored.done =>
      /\ scored.res.score \in 0..1000
      /\ (scored.userTraits = scored.archetypeTraits
          /\ PositiveKeys(scored.weights) # {}) =>
            /\ scored.res.score = 1000
            /\ \A k \in DOMAIN scored.res.diffs : scored.res.diffs[k] = 0
      /\ (scored.userTraits = neutralTraits /\ scored.archetypeTraits = neutralTraits
          /\ scored.weights = DEFAULT_WEIGHTS) =>
            scored.res = [score |-> 1000, maxPenalty |-> 1040, penalty |-> 0,
                          diffs |-> [k \in TRAITS |-> 0]]

\* Equal vectors away from the neutral one, with a key missing, scored 100
\* under weights of both signs.
C14_Witness ==
    /\ scored.done
    /\ scored.userTraits = scored.archetypeTraits
    /\ DOMAIN scored.userTraits = TRAITS \ {"T7"}
    /\ scored.userTraits["T1"] = 4
    /\ scored.weights = [T1 |-> 3, T7 |-> -2, T10 |-> 1]
    /\ scored.res.score = 1000

\* C15: over exactly the keys with a positive weight, penalty is the sum of
\* weight x |user - archetype| (missing counted as 2), maxPenalty the sum of
\* weight x 4, and the score is 100 x (1 - penalty / maxPenalty) rounded to
\* one decimal (a half rounds up); when no weight is positive the score is
\* 0 and diffs is empty; the default weights give maxPenalty 104.
C15_ScoreFormula ==
    scored.done =>
      LET w == scored.weights
          u == scored.userTraits
          a == scored.archetypeTraits
          keys == PositiveKeys(w)
          p == WeightedSum(keys, w, u, a, FALSE)
          m == WeightedSum(keys, w, u, a, TRUE)
          r == scored.res
      IN /\ DOMAIN r.diffs = keys
         /\ \A k \in keys : r.diffs[k] = Abs(ValueOr2(u, k) - ValueOr2(a, k))
         /\ r.penalty = 10 * p
         /\ r.maxPenalty = 10 * m
         /\ (keys = {}) => (r.score = 0 /\ r.diffs = [k \in {} |-> 0])
         /\ (keys # {}) =>
              /\ 2 * (r.score * m - 1000 * (m - p)) <= m
              /\ 2 * (r.score * m - 1000 * (m - p)) > -m
         /\ (w = DEFAULT_WEIGHTS) => r.maxPenalty = 1040

\* A score on a half of a tenth, rounded up: weights 3 and 1 (maxPenalty
\* 16) and a penalty of 1 give 93.75, returned as 93.8.
C15_Witness ==
    /\ scored.done
    /\ scored.weights = [T1 |-> 3, T7 |-> -2, T10 |-> 1]
    /\ scored.res.maxPenalty = 160
    /\ scored.res.penalty = 10
    /\ scored.res.score = 938
    /\ "T7" \notin DOMAIN scored.res.diffs

----------------------------------------------------------------------------
(* match/rules.js: applyPenalties, on scores held in tenths and deltas in  *)
(* whole points, as the rules push them.                                    *)

\* Number(p.delta) || 0: a penalty without a delta adds nothing.
DeltaOf(p) == IF "delta" \in DOMAIN p THEN p.delta ELSE 0

\* for (const p of penalties) s += Number(p.delta) || 0
RECURSIVE AddDeltas(_, _, _)
AddDeltas(s, penalties, i) ==
    IF i > Len(penalties) THEN s
    ELSE AddDeltas(s + 10 * DeltaOf(penalties[i]), penalties, i + 1)

\* Mutant: the magnitude of each delta is added.
applyPenalties_Magnitude(baseScore, penalties) ==
    LET mags == [i \in 1..Len(penalties) |-> [delta |-> Abs(DeltaOf(penalties[i]))]]
    IN [score |-> round1(clamp(AddDeltas(baseScore, mags, 1), 0, 1000), 10),
        applied |-> penalties]

applyPenalties(baseScore, penalties) ==
    [score |-> round1(clamp(AddDeltas(baseScore, penalties, 1), 0, 1000), 10),
     applied |-> penalties]

----------------------------------------------------------------------------
(* applyPenalties over base scores and penalty lists: a call, then a call  *)
(* with the same base score and a harsher list.                            *)

\* Largest number of penalties of the list of the first call.
MaxPenalties == 2

\* Base scores, in tenths: 0, 3.2, 5.5, 50, 93.8 and 100.
BaseScores == {0, 32, 55, 500, 938, 1000}

\* Deltas of soft penalties: the three of the rules, none, and a bonus.
Deltas == {-8, -6, -5, 0, 3}

PenaltyChoices == {[key |-> "soft", delta |-> d] : d \in Deltas} \cup {[key |-> "no_delta"]}

InitPenalties ==
    /\ questions = EmptyCatalog
    /\ quizIndex = 0
    /\ answers = EmptyAnswers
    /\ storage = persist(0, EmptyAnswers)
    /\ user = NoProfile
    /\ archetype = NoArchetype
    /\ outcome = NoOutcome
    /\ filtered = NoFiltered
    /\ loadedArchetypes = NoArchetypes
    /\ scored = NoScored
    /\ penalised = NoPenalised
    /\ results = NoResults
    /\ previousResults = NoResults
    /\ screen = NoScreen
    /\ hasState = TRUE
    /\ called = NoCall

PenaltyRun(baseScore, penalties) ==
    [baseScore |-> baseScore, penalties |-> penalties,
     res |-> applyPenalties(baseScore, penalties)]

ApplyPenalties(baseScore, penalties) ==
    /\ penalised = NoPenalised
    /\ penalised' = <<PenaltyRun(baseScore, penalties)>>
    /\ UNCHANGED <<questions, quizIndex, answers, storage, user, archetype, outcome,
                   filtered, loadedArchetypes, scored, results, appVars>>

\* The same call with the delta of penalty i made more negative.
ApplyHarsher(i, d) ==
    /\ Len(penalised) = 1
    /\ i \in 1..Len(penalised[1].penalties)
    /\ "delta" \in DOMAIN penalised[1].penalties[i]
    /\ d < penalised[1].penalties[i].delta
    /\ penalised' = Append(penalised,
         PenaltyRun(penalised[1].baseScore,
                    [penalised[1].penalties EXCEPT ![i] = [@ EXCEPT !.delta = d]]))
    /\ UNCHANGED <<questions, quizIndex, answers, storage, user, archetype, outcome,
                   filtered, loadedArchetypes, scored, results, appVars>>

\* The same call with one more penalty of negative delta.
ApplyOneMore(d) ==
    /\ Len(penalised) = 1
    /\ d < 0
    /\ penalised' = Append(penalised,
         PenaltyRun(penalised[1].baseScore,
                    Append(penalised[1].penalties, [key |-> "more", delta |-> d])))
    /\ UNCHANGED <<questions, quizIndex, answers, storage, user, archetype, outcome,
                   filtered, loadedArchetypes, scored, results, appVars>>

NextPenalties ==
    \/ \E b \in BaseScores : \E l \in SeqsUpTo(PenaltyChoices, MaxPenalties) :
          ApplyPenalties(b, l)
    \/ \E i \in 1..MaxPenalties : \E d \in Deltas : ApplyHarsher(i, d)
    \/ \E d \in Deltas : ApplyOneMore(d)

SpecPenalties == InitPenalties /\ [][NextPenalties]_vars

----------------------------------------------------------------------------
(* Claim on applyPenalties (SpecPenalties).                                *)

\* l2 is l1 with the delta of one penalty made more negative, or with one
\* penalty of negative delta added.
Harsher(l1, l2) ==
    \/ /\ Len(l2) = Len(l1)
       /\ \E i \in 1..Len(l1) :
            /\ "delta" \in DOMAIN l1[i]
            /\ "delta" \in DOMAIN l2[i]
            /\ l2[i].delta < l1[i].delta
            /\ l2[i].key = l1[i].key
            /\ \A j \in 1..Len(l1) : j # i => l2[j] = l1[j]
    \/ /\ Len(l2) = Len(l1) + 1
       /\ SubSeq(l2, 1, Len(l1)) = l1
       /\ "delta" \in DOMAIN l2[Len(l2)]
       /\ l2[Len(l2)].delta < 0

\* C20: for the same base score, a penalty list with one delta made more
\* negative, or with one more penalty of negative delta, never gives a
\* higher final score.
C20_PenaltyMonotone ==
    (/\ Len(penalised) = 2
     /\ penalised[2].baseScore = penalised[1].baseScore
     /\ Harsher(penalised[1].penalties, penalised[2].penalties))
       => penalised[2].res.score <= penalised[1].res.score

\* A list holding a bonus and a penalty whose delta went from -5 to -8,
\* lowering the final score.
C20_Witness ==
    /\ Len(penalised) = 2
    /\ Harsher(penalised[1].penalties, penalised[2].penalties)
    /\ penalised[1].penalties = <<[key |-> "soft", delta |-> 3], [key |-> "soft", delta |-> -5]>>
    /\ penalised[2].penalties[2].delta = -8
    /\ penalised[2].res.score < penalised[1].res.score

----------------------------------------------------------------------------
(* match/scoring.js rankArchetypes and the results screen's                *)
(* renderResultsScreen: filter, score the allowed, merge the penalties,    *)
(* sort, slice.                                                            *)

\* Array.prototype.sort with (x, y) => y.score - x.score is stable: an entry
\* goes after every entry already placed whose score is not lower.
RECURSIVE SortByScoreDescFrom(_, _, _)
SortByScoreDescFrom(l, i, acc) ==
    IF i > Len(l) THEN acc
    ELSE LET ahead == {n \in 1..Len(acc) : acc[n].score >= l[i].score}
             at == IF ahead = {} THEN 0 ELSE CHOOSE n \in ahead : \A o \in ahead : o <= n
         IN SortByScoreDescFrom(l, i + 1,
              SubSeq(acc, 1, at) \o <<l[i]>> \o SubSeq(acc, at + 1, Len(acc)))

\* Mutant: the list is left in the order it came in.
SortByScoreDesc_Unsorted(l) == l

SortByScoreDesc(l) == SortByScoreDescFrom(l, 1, <<>>)

rankArchetypes(archs, userTraits, weights) ==
    LET scoredList == [i \in 1..Len(archs) |->
                         LET res == scoreArchetype(userTraits, archs[i].traits, weights)
                         IN [id |-> archs[i].id, score |-> res.score, diffs |-> res.diffs]]
    IN SortByScoreDesc(scoredList)

\* Mutant: the first allowed entry is taken, whatever its id.
FindAllowed_First(allowed, id) == IF Len(allowed) = 0 THEN 0 ELSE 1

\* allowed.find((a) => a.archetype.id === r.id): the index of the first
\* match, 0 standing for undefined.
FindAllowed(allowed, id) ==
    LET hits == {n \in 1..Len(allowed) : allowed[n].archetype.id = id}
    IN IF hits = {} THEN 0 ELSE SetMin(hits)

\* Mutant: the penalties are applied to the final score the previous render
\* left for the archetype, when there is one.
MergeEntry_Drifts(r, allowed) ==
    LET n == FindAllowed(allowed, r.id)
        before == IF results.screen = "results"
                  THEN {m \in 1..Len(results.merged) : results.merged[m].id = r.id}
                  ELSE {}
        base == IF before = {} THEN r.score ELSE results.merged[SetMin(before)].score
        penaltyRes == applyPenalties(base, IF n = 0 THEN <<>> ELSE allowed[n].penalties)
    IN [id |-> r.id,
        archetype |-> IF n = 0 THEN NoArchetype ELSE allowed[n].archetype,
        baseScore |-> r.score,
        score |-> penaltyRes.score,
        penalties |-> penaltyRes.applied,
        diffs |-> r.diffs]

\* ranked.map((r) => { ... }): entry?.penalties || [] and entry?.archetype.
MergeEntry(r, allowed) ==
    LET n == FindAllowed(allowed, r.id)
        penaltyRes == applyPenalties(r.score, IF n = 0 THEN <<>> ELSE allowed[n].penalties)
    IN [id |-> r.id,
        archetype |-> IF n = 0 THEN NoArchetype ELSE allowed[n].archetype,
        baseScore |-> r.score,
        score |-> penaltyRes.score,
        penalties |-> penaltyRes.applied,
        diffs |-> r.diffs]

\* The N of merged.slice(0, 5) and blocked.slice(0, 5).
TopN == 5

\* Mutant: slice takes the whole list.
Slice_All(l, n) == l

\* l.slice(0, n)
Slice(l, n) == SubSeq(l, 1, IF Len(l) < n THEN Len(l) ELSE n)

\* Mutant: the scorer is handed the catalog itself and sorts it in place.
\* (previousResults is the observer's: see Rerender and NextResults.)
renderResultsScreen_SortsCatalog ==
    /\ loadedArchetypes # <<>>
    /\ DOMAIN answers # {}
    /\ \E u \in {buildUserProfileFromState(questions, answers)} :
       \E ranked \in {rankArchetypes(loadedArchetypes, u.traits, DEFAULT_WEIGHTS)} :
          /\ user' = u
          /\ loadedArchetypes' =
               [i \in 1..Len(ranked) |->
                  loadedArchetypes[SetMin({n \in 1..Len(loadedArchetypes) :
                                             loadedArchetypes[n].id = ranked[i].id})]]
          /\ results' = [screen |-> "results", allowed |-> <<>>, blocked |-> <<>>,
                         ranked |-> ranked, merged |-> <<>>, top |-> <<>>, avoid |-> <<>>]
    /\ UNCHANGED <<questions, quizIndex, answers, storage, archetype, outcome, filtered,
                   scored, penalised, screen, hasState, called>>

renderResultsScreen ==
    /\ IF loadedArchetypes = <<>>
       THEN /\ results' = [screen |-> "error"]
            /\ user' = user
       ELSE IF DOMAIN answers = {}
       THEN /\ results' = [screen |-> "welcome"]
            /\ user' = user
       ELSE \E u \in {buildUserProfileFromState(questions, answers)} :
            \* An error thrown by the builder leaves the handler: nothing is rendered.
            IF ~u.built
            THEN /\ user' = u
                 /\ results' = [screen |-> "threw"]
            ELSE
            \E f \in {filterArchetypes(loadedArchetypes, u)} :
            \E ranked \in {rankArchetypes([i \in 1..Len(f.allowed) |-> f.allowed[i].archetype],
                                          u.traits, DEFAULT_WEIGHTS)} :
            \E merged \in {SortByScoreDesc([i \in 1..Len(ranked) |->
                                              MergeEntry(ranked[i], f.allowed)])} :
               /\ user' = u
               /\ results' = [screen |-> "results", allowed |-> f.allowed,
                              blocked |-> f.blocked, ranked |-> ranked, merged |-> merged,
                              top |-> Slice(merged, TopN), avoid |-> Slice(f.blocked, TopN)]
    /\ UNCHANGED <<questions, quizIndex, answers, storage, archetype, outcome, filtered,
                   loadedArchetypes, scored, penalised, screen, hasState, called>>

----------------------------------------------------------------------------
(* The results screen over quiz states and loaded catalogs.                *)

\* The rules' catalog followed by a question whose options set every trait.
ResultsCatalog ==
    RulesCatalog \o
    << Q("household", "single",
         << Opt("undemanding", [k \in TRAITS |-> 0]),
            Opt("easygoing", [k \in TRAITS |-> 2]) >>) >>

ResultsAnswers ==
    RuleAnswers \cup {Put(a, "household", Single("undemanding")) : a \in RuleAnswers}

\* A catalog of fewer than TopN archetypes, the first at the far end of the
\* scale from an undemanding household.
SmallCatalog ==
    << Archetype("mountain_dog", [k \in TRAITS |-> IF k = "T7" THEN 2 ELSE 4],
                 <<>>, <<>>, <<"large">>),
       Archetype("calm_companion", NoTraits, <<"low_energy">>, <<>>, <<"small">>),
       Archetype("senior_dog", [T1 |-> 1], <<>>, <<>>, <<"medium">>),
       Archetype("spitz", [T6 |-> 4, T7 |-> 4], <<>>, <<"vocal", "high_shedding">>,
                 <<"medium">>) >>

\* What getArchetypes() may return: a loaded catalog, or [] before a load.
ArchetypeCatalogs == {ArchetypeCatalog, SmallCatalog, NoArchetypes}

InitResults ==
    /\ questions = ResultsCatalog
    /\ answers \in ResultsAnswers
    /\ quizIndex = IndexAfter(questions, answers)
    /\ storage = persist(quizIndex, answers)
    /\ user = NoProfile
    /\ archetype = NoArchetype
    /\ outcome = NoOutcome
    /\ filtered = NoFiltered
    /\ loadedArchetypes \in ArchetypeCatalogs
    /\ scored = NoScored
    /\ penalised = NoPenalised
    /\ results = NoResults
    /\ previousResults = NoResults
    /\ screen = NoScreen
    /\ hasState = TRUE
    /\ called = NoCall

\* The first render of a page; a render after a render is Rerender's.
NextResults == results = NoResults /\ renderResultsScreen /\ UNCHANGED previousResults

SpecResults == InitResults /\ [][NextResults]_vars

----------------------------------------------------------------------------
(* Vocabulary of the claims on the results screen.                         *)

Shown == results.screen = "results"

\* The archetype ids of a list of {archetype, ...} entries.
ArchetypeIds(l) == {l[i].archetype.id : i \in 1..Len(l)}

\* The ids of a list of scored entries.
EntryIds(l) == {l[i].id : i \in 1..Len(l)}

StairsHigh(u) ==
    \/ UserFlag(u, "stairs_high")
    \/ ("stairs_elevator" \in DOMAIN u.answers
        /\ u.answers["stairs_elevator"] = Single("stairs_high"))

LargeOnlyOrSenior(a) == a.size = <<"large">> \/ a.id = "senior_dog"

\* The soft penalties of the rule table for an archetype no rule excludes.
SoftPenalties(u, a) ==
    (IF Trigger(1, u) THEN <<PENALTY_ALONE>> ELSE <<>>)
    \o (IF Trigger(3, u) /\ a.traits["T6"] >= 3 THEN <<PENALTY_NOISE>> ELSE <<>>)
    \o (IF StairsHigh(u) /\ LargeOnlyOrSenior(a) THEN <<PENALTY_STAIRS>> ELSE <<>>)

RECURSIVE SumOfDeltas(_)
SumOfDeltas(l) == IF l = <<>> THEN 0 ELSE Head(l).delta + SumOfDeltas(Tail(l))

\* The score s (in tenths) lowered by n points, kept within 0..100.
Lowered(s, n) ==
    IF s + 10 * n < 0 THEN 0 ELSE IF s + 10 * n > 1000 THEN 1000 ELSE s + 10 * n

----------------------------------------------------------------------------
(* Claims on the results screen (SpecResults).                             *)

\* C11: whenever the user has flag shedding_sensitive or T7 = 0, every
\* archetype with risk high_shedding or own T7 >= 3 is in the blocked list
\* and in none of the allowed, ranked and merged lists.
C11_SheddingExcluded ==
    (Shown /\ Trigger(4, user)) =>
      \A i \in 1..Len(loadedArchetypes) :
        Excludes(4, loadedArchetypes[i]) =>
          /\ loadedArchetypes[i].id \in ArchetypeIds(results.blocked)
          /\ loadedArchetypes[i].id \notin ArchetypeIds(results.allowed)
          /\ loadedArchetypes[i].id \notin EntryIds(results.ranked)
          /\ loadedArchetypes[i].id \notin EntryIds(results.merged)
          /\ loadedArchetypes[i].id \notin EntryIds(results.top)

\* A user with T7 = 0 and the flag; a high_shedding archetype blocked by R4
\* itself and an archetype blocked by R4 on its T7 alone.
C11_Witness ==
    /\ Shown
    /\ UserFlag(user, "shedding_sensitive")
    /\ user.traits["T7"] = 0
    /\ \E i \in 1..Len(results.blocked) :
         /\ "high_shedding" \in Range(results.blocked[i].archetype.risks)
         /\ results.blocked[i].reasons = <<REASON_R4>>
    /\ \E i \in 1..Len(results.blocked) :
         /\ "high_shedding" \notin Range(results.blocked[i].archetype.risks)
         /\ results.blocked[i].archetype.traits["T7"] >= 3
         /\ results.blocked[i].reasons = <<REASON_R4>>

\* C12: R6 never excludes (a blocked archetype is excluded by one of
\* R1..R5); an allowed archetype carries the penalty -5 exactly when the
\* user has stairs_high (flag or raw answer) and its size is exactly
\* [large] or its id is senior_dog; when that is its only penalty its final
\* score is its base score minus 5, not below 0.
C12_StairsPenalty ==
    Shown =>
      /\ \A i \in 1..Len(results.blocked) :
           /\ Firing(user, results.blocked[i].archetype) # {}
           /\ \E n \in 1..5 : results.blocked[i].reasons = <<ReasonOf(n)>>
      /\ \A i \in 1..Len(results.allowed) :
           HasPenalty(results.allowed[i], "stairs_high_mobility", -5)
             <=> (StairsHigh(user) /\ LargeOnlyOrSenior(results.allowed[i].archetype))
      /\ \A i \in 1..Len(results.merged) :
           results.merged[i].penalties = <<PENALTY_STAIRS>> =>
             results.merged[i].score = Lowered(results.merged[i].baseScore, -5)

\* stairs_elevator = stairs_high alone: a [large] archetype that passed the
\* hard filters ends 5 points under its base score, and an archetype whose
\* size list holds large among others keeps its base score.
C12_Witness ==
    /\ Shown
    /\ DOMAIN user.answers = {"stairs_elevator"}
    /\ \E i \in 1..Len(results.merged) :
         /\ results.merged[i].archetype.size = <<"large">>
         /\ results.merged[i].penalties = <<PENALTY_STAIRS>>
         /\ results.merged[i].score = results.merged[i].baseScore - 50
    /\ \E i \in 1..Len(results.merged) :
         /\ results.merged[i].archetype.size = <<"medium", "large">>
         /\ results.merged[i].score = results.merged[i].baseScore

\* C13: an allowed outcome has no reasons and its penalties are exactly the
\* soft penalties of the triggered rules in rule order, at most one each of
\* R1 (-6), R3 (-8) and R6 (-5); the deltas sum to a value in -19..0.
C13_AllowedPenalties ==
    Shown =>
      \A i \in 1..Len(results.allowed) :
        /\ results.allowed[i].reasons = <<>>
        /\ results.allowed[i].penalties = SoftPenalties(user, results.allowed[i].archetype)
        /\ SumOfDeltas(results.allowed[i].penalties) \in -19..0

\* An allowed archetype with the three penalties, for a user who also
\* triggers R2: its deltas sum to -19.
C13_Witness ==
    /\ Shown
    /\ Trigger(2, user)
    /\ \E i \in 1..Len(results.allowed) :
         /\ results.allowed[i].penalties = <<PENALTY_ALONE, PENALTY_NOISE, PENALTY_STAIRS>>
         /\ SumOfDeltas(results.allowed[i].penalties) = -19

\* C16: every merged entry is the allowed entry of its id (ids are unique):
\* its base score is the scorer's score of that archetype for the user's
\* traits, its penalties are those the rules accumulated for that archetype,
\* and its final score is the base score plus the sum of these deltas, kept
\* within 0..100.
C16_FinalScore ==
    Shown =>
      /\ EntryIds(results.merged) = ArchetypeIds(results.allowed)
      /\ Len(results.merged) = Len(results.allowed)
      /\ \A i \in 1..Len(results.merged) :
           \A n \in 1..Len(results.allowed) :
             results.allowed[n].archetype.id = results.merged[i].id =>
               /\ results.merged[i].archetype = results.allowed[n].archetype
               /\ results.merged[i].penalties = results.allowed[n].penalties
               /\ results.merged[i].baseScore =
                    scoreArchetype(user.traits, results.allowed[n].archetype.traits,
                                   DEFAULT_WEIGHTS).score
               /\ results.merged[i].score =
                    Lowered(results.merged[i].baseScore,
                            SumOfDeltas(results.allowed[n].penalties))
               /\ results.merged[i].score \in 0..1000

\* Entries with different penalties, one of them brought to 0 by the clamp.
C16_Witness ==
    /\ Shown
    /\ \E i \in 1..Len(results.merged) :
         /\ results.merged[i].baseScore + 10 * SumOfDeltas(results.merged[i].penalties) < 0
         /\ results.merged[i].score = 0
    /\ \E i, j \in 1..Len(results.merged) :
         /\ results.merged[i].penalties # results.merged[j].penalties
         /\ results.merged[j].penalties # <<>>
         /\ results.merged[j].score > 0

\* C17: the merged list is in descending order of final score.
C17_SortedByFinalScore ==
    Shown =>
      \A i \in 1..Len(results.merged) - 1 :
        results.merged[i].score >= results.merged[i + 1].score

\* Penalties inverted the order the base scores gave.
C17_Witness ==
    /\ Shown
    /\ \E i \in 1..Len(results.merged) - 1 :
         /\ results.merged[i].baseScore < results.merged[i + 1].baseScore
         /\ results.merged[i].score > results.merged[i + 1].score

\* The archetypes of l, in order, that the rule table excludes for u (or
\* not, when excluded is FALSE).
RECURSIVE Excluded(_, _, _)
Excluded(l, u, excluded) ==
    IF l = <<>> THEN <<>>
    ELSE (IF (Firing(u, Head(l)) # {}) = excluded THEN <<Head(l)>> ELSE <<>>)
         \o Excluded(Tail(l), u, excluded)

\* C18: the allowed and blocked lists partition the catalog, each in
\* catalog order; a blocked entry keeps its exclusion reason, and no
\* blocked archetype is scored or ranked.
C18_Partition ==
    Shown =>
      /\ [i \in 1..Len(results.allowed) |-> results.allowed[i].archetype]
           = Excluded(loadedArchetypes, user, FALSE)
      /\ [i \in 1..Len(results.blocked) |-> results.blocked[i].archetype]
           = Excluded(loadedArchetypes, user, TRUE)
      /\ Len(results.allowed) + Len(results.blocked) = Len(loadedArchetypes)
      /\ ArchetypeIds(results.allowed) \cap ArchetypeIds(results.blocked) = {}
      /\ \A i \in 1..Len(results.blocked) :
           /\ results.blocked[i].reasons =
                <<ReasonOf(SetMin(Firing(user, results.blocked[i].archetype)))>>
           /\ results.blocked[i].archetype.id \notin EntryIds(results.ranked)
           /\ results.blocked[i].archetype.id \notin EntryIds(results.merged)
      /\ Len(results.ranked) = Len(results.allowed)

\* Both lists hold several archetypes, and blocked ones lie between
\* allowed ones in the catalog.
C18_Witness ==
    /\ Shown
    /\ Len(results.allowed) >= 2
    /\ Len(results.blocked) >= 2
    /\ \E i, j, k \in 1..Len(loadedArchetypes) :
         /\ i < j
         /\ j < k
         /\ loadedArchetypes[i].id \in ArchetypeIds(results.allowed)
         /\ loadedArchetypes[j].id \in ArchetypeIds(results.blocked)
         /\ loadedArchetypes[k].id \in ArchetypeIds(results.allowed)
    /\ \E i, j \in 1..Len(results.blocked) :
         results.blocked[i].reasons # results.blocked[j].reasons

\* C19 as stated: the top list holds every allowed archetype and the avoid
\* list every blocked archetype, whatever the catalog size.
C19_NoTruncation ==
    Shown =>
      /\ EntryIds(results.top) = ArchetypeIds(results.allowed)
      /\ ArchetypeIds(results.avoid) = ArchetypeIds(results.blocked)

\* C19, amended: the merged list holds every allowed archetype and the
\* blocked list every excluded one, whatever the catalog size; top and avoid
\* are their first five entries, the whole list when it has at most five.
C19_CompleteBeforeSlice ==
    Shown =>
      /\ EntryIds(results.merged) = ArchetypeIds(results.allowed)
      /\ Len(results.merged) = Len(results.allowed)
      /\ \A i \in 1..Len(loadedArchetypes) :
           loadedArchetypes[i].id \in
             ArchetypeIds(results.allowed) \cup ArchetypeIds(results.blocked)
      /\ Len(results.top) = (IF Len(results.merged) < 5 THEN Len(results.merged) ELSE 5)
      /\ Len(results.avoid) = (IF Len(results.blocked) < 5 THEN Len(results.blocked) ELSE 5)
      /\ \A i \in 1..Len(results.top) : results.top[i] = results.merged[i]
      /\ \A i \in 1..Len(results.avoid) : results.avoid[i] = results.blocked[i]

\* More than five allowed and more than five blocked archetypes: both
\* lists are cut.
C19_Witness ==
    /\ Shown
    /\ Len(results.merged) > 5
    /\ Len(results.blocked) > 5
    /\ Len(results.top) = 5
    /\ Len(results.avoid) = 5

----------------------------------------------------------------------------
(* The results screen rendered again and again, over answers of every      *)
(* shape the stored mapping may hold.                                      *)

\* Largest number of entries of the answers a repeated render starts from.
MaxRenderAnswers == 2

\* Answers that do not fit the catalog: a single id where the question takes
\* a list, a list where it takes a single id, ids the catalog does not know,
\* a question the catalog does not know.
MisshapenChoices ==
    [tolerances |-> {Single("barking"), Single("shedding"),
                     Many(<<"retired_option", "shedding">>)},
     other_pets |-> {Single("cat")},
     alone_time |-> {Many(<<"alone_very_long">>), Single("retired_option")},
     experience |-> {Many(<<"first_time">>)},
     stairs_elevator |-> {Many(<<"stairs_high">>)},
     retired_question |-> {Single("couch"), Many(<<"couch">>)},
     household |-> {Single("undemanding"), Many(<<"undemanding", "easygoing">>)}]

RenderChoices ==
    [key \in DOMAIN RuleChoices \cup DOMAIN MisshapenChoices |->
       (IF key \in DOMAIN RuleChoices THEN RuleChoices[key] ELSE {})
       \cup (IF key \in DOMAIN MisshapenChoices THEN MisshapenChoices[key] ELSE {})]

\* The answers mappings with n entries drawn from choices.
RECURSIVE ChoicesOfSize(_, _)
ChoicesOfSize(choices, n) ==
    IF n = 0 THEN {EmptyAnswers}
    ELSE UNION {UNION {{Put(a, key, val) : val \in choices[key]} :
                       key \in DOMAIN choices \ DOMAIN a} :
                a \in ChoicesOfSize(choices, n - 1)}

RenderAnswers == UNION {ChoicesOfSize(RenderChoices, n) : n \in 0..MaxRenderAnswers}

InitRender ==
    /\ questions = ResultsCatalog
    /\ answers \in RenderAnswers
    /\ quizIndex = IndexAfter(questions, answers)
    /\ storage = persist(quizIndex, answers)
    /\ user = NoProfile
    /\ archetype = NoArchetype
    /\ outcome = NoOutcome
    /\ filtered = NoFiltered
    /\ loadedArchetypes \in ArchetypeCatalogs
    /\ scored = NoScored
    /\ penalised = NoPenalised
    /\ results = NoResults
    /\ previousResults = NoResults
    /\ screen = NoScreen
    /\ hasState = TRUE
    /\ called = NoCall

\* A render, and what the render before it computed.
Rerender == renderResultsScreen /\ previousResults' = results

NextRender == Rerender

SpecRender == InitRender /\ [][NextRender]_vars

----------------------------------------------------------------------------
(* Claims on repeated renders and on the inputs of the pipeline            *)
(* (SpecRender).                                                           *)

\* The position of the archetype id in the loaded catalog.
CatalogPosition(id) ==
    SetMin({n \in 1..Len(loadedArchetypes) : loadedArchetypes[n].id = id})

Misshapen(qs, ans) ==
    {i \in 1..Len(qs) : /\ qs[i].id \in DOMAIN ans
                        /\ ~(ans[qs[i].id].arr <=> qs[i].type = "multi")}

\* C24: over well-formed catalogs, whatever the answers hold (entries
\* missing, a list for a single-answer question, a single id for a
\* multi-answer question, unknown ids), a render never ends in an error
\* thrown by the builder, the rules or the scorer: with answers and
\* archetypes it shows results built from a complete profile (ten traits in
\* 0..4), an outcome for every archetype of the catalog and a score in
\* 0..100 for every allowed one.
C24_Total ==
    (results.screen # "none") =>
      /\ results.screen # "threw"
      /\ (results.screen = "error") <=> (loadedArchetypes = <<>>)
      /\ (results.screen = "welcome") <=> (loadedArchetypes # <<>> /\ DOMAIN answers = {})
      /\ (loadedArchetypes # <<>> /\ DOMAIN answers # {}) =>
           /\ Shown
           /\ user.built
           /\ DOMAIN user.traits = TRAITS
           /\ \A k \in TRAITS : user.traits[k] \in 0..4
           /\ Len(results.allowed) + Len(results.blocked) = Len(loadedArchetypes)
           /\ \A i \in 1..Len(results.blocked) : Len(results.blocked[i].reasons) >= 1
           /\ Len(results.merged) = Len(results.allowed)
           /\ \A i \in 1..Len(results.merged) :
                /\ results.merged[i].baseScore \in 0..1000
                /\ results.merged[i].score \in 0..1000

\* Results are shown for answers of which two have not the shape of their
\* questions, one of them a list naming an option the catalog does not know.
C24_Witness ==
    /\ Shown
    /\ Len(results.merged) >= 1
    /\ Len(results.merged) = Len(loadedArchetypes)
    /\ Cardinality(Misshapen(questions, answers)) >= 2
    /\ "tolerances" \in DOMAIN answers
    /\ ~answers["tolerances"].arr
    /\ \E key \in DOMAIN answers : answers[key].arr /\ answers[key].v # <<>>

----------------------------------------------------------------------------
(* Claims on the shape of the stored answers (SpecProfile).                *)

\* C25: whatever setAnswer, setManyAnswers and resetQuiz are called with
\* after initState, every key of the answers is a question id that is not
\* empty, every value is one option id that is not empty or a list of option
\* ids without duplicates (and without empty ids); and a setAnswer call
\* whose question id or option id is empty changes nothing.
C25_AnswersShape ==
    /\ [](\A key \in DOMAIN answers :
            /\ key \notin BlankIds
            /\ IF answers[key].arr
               THEN /\ NoDup(answers[key].v)
                    /\ "" \notin Range(answers[key].v)
               ELSE /\ Len(answers[key].v) = 1
                    /\ answers[key].v[1] \notin BlankIds)
    /\ [][\/ (answers' = answers /\ quizIndex' = quizIndex /\ storage' = storage)
          \/ \A q \in BlankIds \cup {"activity"} : \A o \in BlankIds \cup {"couch"} :
               ~((q \in BlankIds \/ o \in BlankIds) /\ setAnswer(q, o))]_vars

\* The answers hold a single option id under one question and a list of
\* two option ids under another.
C25_Witness ==
    /\ \E key \in DOMAIN answers : ~answers[key].arr
    /\ \E key \in DOMAIN answers : answers[key].arr /\ Len(answers[key].v) = 2
    /\ storage = persist(quizIndex, answers)

----------------------------------------------------------------------------
(* components/ChoiceCards.js: one rendered group of choice cards.          *)

\* Largest number of clicks on one rendered group.
MaxClicks == 2

\* selection: null
NoSelection == [arr |-> FALSE, v |-> <<>>]

\* normalizeSelection(type, selection)
normalizeSelection(type, selection) ==
    IF type = "multi"
    THEN IF selection.arr THEN Uniq(selection.v) ELSE <<>>
    ELSE IF ~selection.arr /\ selection.v # <<>> /\ selection.v[1] # ""
         THEN selection.v
         ELSE <<>>

\* Set.prototype.delete on an insertion-ordered set.
SetDelete(set, x) == SelectSeq(set, LAMBDA y : y # x)

\* Mutant: none stays in the set when another card is clicked.
NextSelection_KeepsNone(selectedIds, id) ==
    IF id = "none" THEN <<"none">>
    ELSE IF id \in Range(selectedIds) THEN SetDelete(selectedIds, id)
         ELSE SetAdd(selectedIds, id)

\* The click handler of a multi group: next = new Set(selectedIds), then
\* clear and add none, or delete none and toggle the id.
NextSelection(selectedIds, id) ==
    IF id = "none" THEN <<"none">>
    ELSE LET kept == SetDelete(selectedIds, "none")
         IN IF id \in Range(kept) THEN SetDelete(kept, id) ELSE SetAdd(kept, id)

\* No click yet: onSelect has not been called.
NoPayload == [arr |-> FALSE, v |-> <<>>]

\* renderChoiceCards(mountEl, props): selectedIds is the closure's constant,
\* shown the selection applySelectionUI last put on the cards; before, clicks
\* and payload record the clicks for the observer (onSelect).
ChoiceCards(type, optionIds, selection) ==
    LET selectedIds == normalizeSelection(type, selection)
    IN [route |-> "cards", type |-> type, options |-> optionIds,
        selectedIds |-> selectedIds, shown |-> selectedIds,
        before |-> selectedIds, clicks |-> <<>>, payload |-> NoPayload]

\* card.addEventListener("click", ...)
clickCard(id) ==
    /\ screen.route = "cards"
    /\ id \in screen.options
    /\ Len(screen.clicks) < MaxClicks
    /\ IF screen.type = "multi"
       THEN \E next \in {NextSelection(screen.selectedIds, id)} :
              screen' = [screen EXCEPT !.shown = next,
                                       !.before = screen.shown,
                                       !.clicks = Append(@, id),
                                       !.payload = Many(next)]
       ELSE screen' = [screen EXCEPT !.shown = <<id>>,
                                     !.before = screen.shown,
                                     !.clicks = Append(@, id),
                                     !.payload = Single(id)]
    /\ UNCHANGED <<questions, quizIndex, answers, storage, user, archetype, outcome,
                   filtered, matchVars, previousResults, hasState, called>>

\* The option ids of a group, and the selections it may be rendered with.
CardIds == {"cat", "dog", "none"}
CardSelections ==
    {NoSelection, Single("cat"), Single("none")}
    \cup {Many(l) : l \in SeqsUpTo(CardIds, MaxSel)}

InitChoice ==
    /\ questions = EmptyCatalog
    /\ quizIndex = 0
    /\ answers = EmptyAnswers
    /\ storage = persist(0, EmptyAnswers)
    /\ user = NoProfile
    /\ archetype = NoArchetype
    /\ outcome = NoOutcome
    /\ filtered = NoFiltered
    /\ loadedArchetypes = NoArchetypes
    /\ scored = NoScored
    /\ penalised = NoPenalised
    /\ results = NoResults
    /\ previousResults = NoResults
    /\ screen \in {ChoiceCards(type, CardIds, selection) :
                     type \in {"single", "multi"}, selection \in CardSelections}
    /\ hasState = TRUE
    /\ called = NoCall

NextChoice == \E id \in CardIds : clickCard(id)

SpecChoice == InitChoice /\ [][NextChoice]_vars

----------------------------------------------------------------------------
(* Claims on the choice cards (SpecChoice).                                *)

\* A card of a multi group has been clicked.
MultiClicked ==
    /\ screen.route = "cards"
    /\ screen.type = "multi"
    /\ screen.clicks # <<>>

LastClick == screen.clicks[Len(screen.clicks)]

\* The set that toggling id in the set before gives, none being exclusive.
Toggled(before, id) ==
    IF id = "none" THEN {"none"}
    ELSE IF id \in before THEN (before \ {"none"}) \ {id}
         ELSE (before \ {"none"}) \cup {id}

\* C26 as stated: a multi group is checkbox-like across the clicks on one
\* rendered group: each click toggles the clicked option in the selection
\* the previous click produced, so that from an empty selection the payload
\* of the second of two clicks on distinct options other than none holds
\* both.
C26_CheckboxAcrossClicks ==
    MultiClicked =>
      /\ Range(screen.payload.v) = Toggled(Range(screen.before), LastClick)
      /\ (/\ screen.selectedIds = <<>>
          /\ Len(screen.clicks) = 2
          /\ screen.clicks[1] # screen.clicks[2]
          /\ "none" \notin Range(screen.clicks))
         => Range(screen.clicks) \subseteq Range(screen.payload.v)

\* C27: in a multi group every payload handed to onSelect is exactly [none]
\* when none was clicked and holds no none when another card was clicked,
\* whatever selection the group was rendered with.
C27_NoneExclusive ==
    MultiClicked =>
      /\ screen.payload.arr
      /\ NoDup(screen.payload.v)
      /\ IF LastClick = "none"
         THEN screen.payload.v = <<"none">>
         ELSE "none" \notin Range(screen.payload.v)

\* A group rendered with none and another option selected: a click on
\* another card, after a click on none.
C27_Witness ==
    /\ MultiClicked
    /\ "none" \in Range(screen.selectedIds)
    /\ Len(screen.selectedIds) = 2
    /\ Len(screen.clicks) = 2
    /\ screen.clicks[1] = "none"
    /\ LastClick # "none"
    /\ screen.payload.v # <<>>

----------------------------------------------------------------------------
(* screens/quiz.js: the quiz screen, its handlers and the routes around    *)
(* it; main.js: boot.                                                      *)

\* JSON values: a number, a string, null, an object (a mapping), and the
\* undefined of a field that is absent.
Num(n) == [t |-> "number", n |-> n]
Str(s) == [t |-> "string", s |-> s]
Null == [t |-> "null"]
Undefined == [t |-> "undefined"]
Obj(o) == [t |-> "object", o |-> o]

NaN == [finite |-> FALSE]
Finite(n) == [finite |-> TRUE, n |-> n]

\* parseInt(s, 10), over the strings the model stores.
parseInt10(s) ==
    CASE s = "2" -> Finite(2)
      [] s = "-3" -> Finite(-3)
      [] s = "12abc" -> Finite(12)
      [] OTHER -> NaN

\* clampInt(v, min, max): Number.isFinite(v) ? v : parseInt(v, 10), min when
\* that is not finite, else Math.max(min, Math.min(max, n)).
clampInt(v, min, max) ==
    LET n == IF v.t = "number" THEN Finite(v.n)
             ELSE IF v.t = "string" THEN parseInt10(v.s) ELSE NaN
    IN IF ~n.finite THEN min ELSE clamp(n.n, min, max)

\* syncNextEnabled: Array.isArray(sel) ? sel.length > 0 : !!sel
hasSelection(ans, qid) ==
    /\ qid \in DOMAIN ans
    /\ IF ans[qid].arr THEN Len(ans[qid].v) > 0 ELSE ans[qid].v[1] # ""

\* renderWelcomeScreen
WelcomeScreen == [route |-> "welcome"]

\* renderQuizScreen: the index and the selection the handlers close over,
\* and the state of the cards and of the Next button.
QuizScreen(qs, index, ans) ==
    IF Len(qs) = 0 THEN [route |-> "quiz", failed |-> TRUE]
    ELSE LET qIndex == clampInt(Num(index), 0, Len(qs) - 1)
             q == qs[qIndex + 1]
             selectedIds == normalizeSelection(q.type,
                              IF q.id \in DOMAIN ans THEN ans[q.id] ELSE NoSelection)
         IN [route |-> "quiz", failed |-> FALSE, qIndex |-> qIndex,
             selectedIds |-> selectedIds, shown |-> selectedIds,
             nextEnabled |-> (q.type = "multi" /\ hasSelection(ans, q.id))]

\* navigate(route) and the render it causes; renderResultsScreen sends a
\* quiz without answers back to the welcome screen.
RenderRoute(route, qs, index, ans, archs) ==
    CASE route = "quiz" -> QuizScreen(qs, index, ans)
      [] route = "results" ->
           IF archs = <<>> THEN [route |-> "results", failed |-> TRUE]
           ELSE IF DOMAIN ans = {} THEN WelcomeScreen
           ELSE [route |-> "results", failed |-> FALSE]
      [] OTHER -> WelcomeScreen

\* Math.max(0, index - 1)
goBackIndex(index) == IF index - 1 > 0 THEN index - 1 ELSE 0

\* Mutant: the last question is left too.
goNextIndex_PastLast(index, total) == index + 1

\* nextIndex >= total ? total - 1 : nextIndex
goNextIndex(index, total) == IF index + 1 >= total THEN total - 1 ELSE index + 1

goNextRoute(index, total) == IF index + 1 >= total THEN "results" ELSE "quiz"

\* goBack(index): the caller says what becomes of answers and storage.
goBack(index) ==
    /\ quizIndex' = goBackIndex(index)
    /\ screen' = RenderRoute("quiz", questions, quizIndex', answers', loadedArchetypes)

\* goNext(index, total): the caller says what becomes of answers and storage.
goNext(index, total) ==
    /\ quizIndex' = goNextIndex(index, total)
    /\ screen' = RenderRoute(goNextRoute(index, total), questions, quizIndex', answers',
                             loadedArchetypes)

\* What no handler of the quiz touches.
quizFrame ==
    UNCHANGED <<questions, user, archetype, outcome, filtered, matchVars,
                previousResults, hasState, called>>

OnQuiz == screen.route = "quiz" /\ ~screen.failed

\* A click on a card of the quiz screen: the card's handler, then onSelect:
\* setManyAnswers and syncNextEnabled for a multi question, setAnswer and
\* goNext for a single one.
clickChoice(id) ==
    /\ OnQuiz
    /\ LET q == questions[screen.qIndex + 1]
           qid == Trim(q.id)
       IN /\ \E n \in 1..Len(q.options) : q.options[n].id = id
          /\ IF q.type = "multi"
             THEN \E next \in {NextSelection(screen.selectedIds, id)} :
                  \E uniq \in {Uniq(FilterNonEmpty(next))} :
                    /\ answers' = Put(answers, qid, Many(uniq))
                    /\ quizIndex' = bumpIndexIfCurrent(questions, quizIndex, qid)
                    /\ storage' = persist(quizIndex', answers')
                    /\ screen' = [screen EXCEPT !.shown = next,
                                                !.nextEnabled = hasSelection(answers', q.id)]
             ELSE /\ answers' = Put(answers, qid, Single(Trim(id)))
                  /\ storage' = persist(bumpIndexIfCurrent(questions, quizIndex, qid),
                                        answers')
                  /\ goNext(screen.qIndex, Len(questions))
    /\ quizFrame

\* nextBtn click: the button is enabled on a multi question with a selection.
clickNext ==
    /\ OnQuiz
    /\ screen.nextEnabled
    /\ UNCHANGED <<answers, storage>>
    /\ goNext(screen.qIndex, Len(questions))
    /\ quizFrame

\* backBtn click: the button is disabled on the first question.
clickBack ==
    /\ OnQuiz
    /\ screen.qIndex # 0
    /\ UNCHANGED <<answers, storage>>
    /\ goBack(screen.qIndex)
    /\ quizFrame

\* closeBtn click on the quiz, restartBtn click on the results, confirmed:
\* resetQuiz(); navigate("welcome").
clickReset ==
    /\ screen.route \in {"quiz", "results"}
    /\ answers' = EmptyAnswers
    /\ quizIndex' = 0
    /\ storage' = persist(0, EmptyAnswers)
    /\ screen' = WelcomeScreen
    /\ quizFrame

\* startQuizBtn click on the welcome screen, backToQuizBtn click on the
\* results: navigate("quiz").
openQuiz ==
    /\ screen.route \in {"welcome", "results"}
    /\ screen' = RenderRoute("quiz", questions, quizIndex, answers, loadedArchetypes)
    /\ UNCHANGED <<quizIndex, answers, storage>>
    /\ quizFrame

----------------------------------------------------------------------------
(* state.js: initState and hydrateState over what localStorage may hold.   *)

\* The upper limit hydrateState clamps quizIndex to.
MaxStoredIndex == 9999

\* localStorage.getItem(STORAGE_KEY) === null
NotStored == [present |-> FALSE]
\* A stored text that is not the JSON of an object: "" (empty), "{" (not
\* JSON), "null", "7".
StoredText(text) == [present |-> TRUE, text |-> text]
\* The JSON text of an object with the fields given (Undefined: no field).
StoredObject(index, ans) == [present |-> TRUE, fields |-> [quizIndex |-> index, answers |-> ans]]

\* JSON.parse(raw): ok is FALSE when it throws. persist() stores the JSON of
\* {quizIndex, answers}.
JSONparse(raw) ==
    IF "text" \in DOMAIN raw
    THEN CASE raw.text = "null" -> [ok |-> TRUE, value |-> Null]
           [] raw.text = "7" -> [ok |-> TRUE, value |-> Num(7)]
           [] OTHER -> [ok |-> FALSE]
    ELSE IF "fields" \in DOMAIN raw
    THEN [ok |-> TRUE, value |-> Obj(raw.fields)]
    ELSE [ok |-> TRUE,
          value |-> Obj([quizIndex |-> Num(raw.quizIndex), answers |-> Obj(raw.answers)])]

\* value.key of a parsed value that is not null: undefined on a number.
Field(value, key) == IF value.t = "object" THEN value.o[key] ELSE Undefined

\* x ?? y
Coalesce(x, y) == IF x.t \in {"null", "undefined"} THEN y ELSE x

\* _state (null when hasState is FALSE) and the stored text.
Mem(has, index, ans, sto) ==
    [hasState |-> has, quizIndex |-> index, answers |-> ans, storage |-> sto]

\* initState(): _state and storage after the call; it returns _state.
initState(mem) ==
    IF mem.hasState THEN mem
    ELSE Mem(TRUE, 0, EmptyAnswers, persist(0, EmptyAnswers))

\* hydrateState(): _state and storage after the call; it returns _state.
\* Reading a field of null throws, as JSON.parse does on a text that is not
\* JSON: the catch branch returns initState().
hydrateState(mem) ==
    LET raw == mem.storage
    IN IF ~raw.present \/ raw = StoredText("") THEN initState(mem)
       ELSE LET parsed == JSONparse(raw)
            IN IF ~parsed.ok \/ parsed.value.t = "null"
               THEN initState(mem)
               ELSE LET index == Coalesce(Field(parsed.value, "quizIndex"), Num(0))
                        ans == Field(parsed.value, "answers")
                    IN Mem(TRUE, clampInt(index, 0, MaxStoredIndex),
                           IF ans.t = "object" THEN ans.o ELSE EmptyAnswers, raw)

\* A call of initState.
InitState ==
    /\ \E mem \in {initState(Mem(hasState, quizIndex, answers, storage))} :
         /\ hasState' = mem.hasState
         /\ quizIndex' = mem.quizIndex
         /\ answers' = mem.answers
         /\ storage' = mem.storage
    /\ UNCHANGED <<questions, user, archetype, outcome, filtered, matchVars,
                   previousResults, screen, called>>

\* A call of hydrateState; called keeps what it read, whether there was a
\* state in memory, and the state it returned.
HydrateState ==
    /\ \E mem \in {hydrateState(Mem(hasState, quizIndex, answers, storage))} :
         /\ hasState' = mem.hasState
         /\ quizIndex' = mem.quizIndex
         /\ answers' = mem.answers
         /\ storage' = mem.storage
         /\ called' = [fn |-> "hydrateState", threw |-> FALSE, raw |-> storage,
                       had |-> hasState,
                       value |-> [quizIndex |-> mem.quizIndex, answers |-> mem.answers]]
    /\ UNCHANGED <<questions, user, archetype, outcome, filtered, matchVars,
                   previousResults, screen>>

\* main.js boot() on a page load: _state is null, initState(), then
\* hydrateState(); the catalogs load as before; the welcome screen.
Reloaded(sto) == hydrateState(initState(Mem(FALSE, 0, EmptyAnswers, sto)))

boot ==
    /\ \E mem \in {Reloaded(storage)} :
         /\ hasState' = mem.hasState
         /\ quizIndex' = mem.quizIndex
         /\ answers' = mem.answers
         /\ storage' = mem.storage
    /\ screen' = WelcomeScreen
    /\ UNCHANGED <<questions, user, archetype, outcome, filtered, matchVars,
                   previousResults, called>>

----------------------------------------------------------------------------
(* The quiz from boot on: clicks on cards and buttons, and page loads.     *)

\* Well-formed catalogs: a multi question between two single ones, and a
\* multi question last.
TourCatalog ==
    << Q("activity", "single",
         << Opt("couch", [T1 |-> 0, T5 |-> 3]),
            Opt("athlete", [T1 |-> 4, risk |-> "high_energy_need"]) >>),
       Q("other_pets", "multi",
         << Opt("cat", [T4 |-> 4]),
            Opt("dog", [T4 |-> 3, risk |-> "dog_home"]),
            Opt("none", NoTraits) >>),
       Q("children", "single",
         << Opt("no_kids", [T10 |-> 1]),
            Opt("kids_home", [T10 |-> 4]) >>) >>

PetsLastCatalog == SubSeq(TourCatalog, 1, 2)

TourCatalogs == {TourCatalog, PetsLastCatalog}

TourIds == {"couch", "athlete", "cat", "dog", "none", "no_kids", "kids_home"}

\* After boot() on a first visit: initState(), nothing stored before it, the
\* catalogs loaded, the welcome screen.
InitQuiz ==
    /\ questions \in TourCatalogs
    /\ quizIndex = 0
    /\ answers = EmptyAnswers
    /\ storage = persist(0, EmptyAnswers)
    /\ user = NoProfile
    /\ archetype = NoArchetype
    /\ outcome = NoOutcome
    /\ filtered = NoFiltered
    /\ loadedArchetypes = SmallCatalog
    /\ scored = NoScored
    /\ penalised = NoPenalised
    /\ results = NoResults
    /\ previousResults = NoResults
    /\ screen = WelcomeScreen
    /\ hasState = TRUE
    /\ called = NoCall

NextQuiz ==
    \/ \E id \in TourIds : clickChoice(id)
    \/ clickNext
    \/ clickBack
    \/ clickReset
    \/ openQuiz
    \/ boot

SpecQuiz == InitQuiz /\ [][NextQuiz]_vars

----------------------------------------------------------------------------
(* hydrateState and initState called in every state of the memory and of   *)
(* the storage.                                                            *)

\* What _state.answers may hold.
MemoryAnswers ==
    {EmptyAnswers,
     [activity |-> Single("couch")],
     [activity |-> Single("athlete"), other_pets |-> Many(<<"cat">>)]}

\* What the quizIndex and answers fields of a stored object may hold.
StoredIndexes ==
    {Num(2), Num(-1), Num(MaxStoredIndex + 1), Str("2"), Str("-3"), Str("12abc"),
     Str("x"), Null, Undefined, Obj(EmptyAnswers)}
StoredAnswers == {Obj(a) : a \in MemoryAnswers} \cup {Null, Undefined, Str("x"), Num(1)}

\* What localStorage may hold under STORAGE_KEY.
Stored ==
    {NotStored, StoredText(""), StoredText("{"), StoredText("null"), StoredText("7")}
    \cup {persist(i, a) : i \in 0..2, a \in MemoryAnswers}
    \cup {StoredObject(i, a) : i \in StoredIndexes, a \in StoredAnswers}

InitHydrate ==
    /\ questions = TourCatalog
    /\ hasState \in BOOLEAN
    /\ quizIndex \in (IF hasState THEN 0..2 ELSE {0})
    /\ answers \in (IF hasState THEN MemoryAnswers ELSE {EmptyAnswers})
    /\ storage \in Stored
    /\ user = NoProfile
    /\ archetype = NoArchetype
    /\ outcome = NoOutcome
    /\ filtered = NoFiltered
    /\ loadedArchetypes = NoArchetypes
    /\ scored = NoScored
    /\ penalised = NoPenalised
    /\ results = NoResults
    /\ previousResults = NoResults
    /\ screen = NoScreen
    /\ called = NoCall

NextHydrate ==
    \/ HydrateState
    \/ InitState

SpecHydrate == InitHydrate /\ [][NextHydrate]_vars

----------------------------------------------------------------------------
(* Claims on hydrateState (SpecHydrate).                                   *)

\* The stored text is there and is not JSON.
Corrupted(raw) == raw.present /\ raw # StoredText("") /\ ~JSONparse(raw).ok

\* The stored text is JSON.
Parses(raw) == raw.present /\ raw # StoredText("") /\ JSONparse(raw).ok

\* The answers field of the stored JSON when it is an object, else {}.
StoredObjectOrEmpty(raw) ==
    LET ans == Field(JSONparse(raw).value, "answers")
    IN IF ans.t = "object" THEN ans.o ELSE EmptyAnswers

\* C28 as stated: hydrateState returns the state it leaves as current; when
\* the stored text is not JSON that state has quizIndex 0 and no answers,
\* whatever was in memory; when the stored text is JSON, quizIndex is in
\* 0..9999 and the answers are the stored object, or {} when the stored
\* answers are no object.
C28_HydrateResetsOrClamps ==
    (called.fn = "hydrateState") =>
      /\ hasState
      /\ called.value = [quizIndex |-> quizIndex, answers |-> answers]
      /\ Corrupted(called.raw) => (quizIndex = 0 /\ answers = EmptyAnswers)
      /\ Parses(called.raw) =>
           /\ quizIndex \in 0..MaxStoredIndex
           /\ answers = StoredObjectOrEmpty(called.raw)

----------------------------------------------------------------------------
(* Claims on the quiz index and on persistence (SpecQuiz).                 *)

\* The 0-based index of the last question.
LastIndex == Len(questions) - 1

C30_Persisted ==
    /\ storage = persist(quizIndex, answers)
    /\ Reloaded(storage).quizIndex = quizIndex
    /\ Reloaded(storage).answers = answers

----------------------------------------------------------------------------
(* match/archetypes.js and data/questions.js: the loaders.                 *)

\* The first error validateArchetypes throws on the catalog, "" when it
\* returns. (Names and the optional list fields are not in the model.)
RECURSIVE validateArchetypesFrom(_, _, _)
validateArchetypesFrom(archetypes, i, ids) ==
    IF i > Len(archetypes) THEN ""
    ELSE LET a == archetypes[i]
         IN IF a.id = "" THEN "Archetype missing id"
            ELSE IF a.id \in ids THEN "Duplicate archetype id"
            ELSE IF \E k \in TRAITS : k \notin DOMAIN a.traits
            THEN "Archetype missing trait"
            ELSE IF \E k \in TRAITS : a.traits[k] < 0 \/ a.traits[k] > 4
            THEN "Archetype has invalid trait"
            ELSE validateArchetypesFrom(archetypes, i + 1, ids \cup {a.id})

validateArchetypes(archetypes) == validateArchetypesFrom(archetypes, 1, {})

\* The first error validateQuestions throws on the catalog, "" when it
\* returns. (Titles and labels are not in the model.)
RECURSIVE validateQuestionsFrom(_, _, _)
validateQuestionsFrom(qs, i, ids) ==
    IF i > Len(qs) THEN ""
    ELSE LET q == qs[i]
         IN IF q.id = "" THEN "Question missing id"
            ELSE IF q.id \in ids THEN "Duplicate question id"
            ELSE IF q.type \notin {"single", "multi"} THEN "Question has invalid type"
            ELSE IF Len(q.options) < 2 THEN "Question must have at least 2 options"
            ELSE IF \E n \in 1..Len(q.options) : q.options[n].id = ""
            THEN "Question has option missing id"
            ELSE IF ~NoDup([n \in 1..Len(q.options) |-> q.options[n].id])
            THEN "Duplicate option id"
            ELSE validateQuestionsFrom(qs, i + 1, ids \cup {q.id})

validateQuestions(qs) == validateQuestionsFrom(qs, 1, {})

\* What fetch and res.json() give: a response that is not ok, a JSON without
\* the list, or a JSON with a list.
NotOk == [ok |-> FALSE]
NoList == [ok |-> TRUE, list |-> FALSE]
Listed(l) == [ok |-> TRUE, list |-> TRUE, entries |-> l]

\* loadArchetypes(): _archetypes is assigned before validateArchetypes runs.
loadArchetypes(res) ==
    /\ IF ~res.ok
       THEN /\ called' = [fn |-> "loadArchetypes", threw |-> TRUE, validated |-> FALSE,
                          message |-> "Failed to load archetypes"]
            /\ UNCHANGED loadedArchetypes
       ELSE IF ~res.list
       THEN /\ called' = [fn |-> "loadArchetypes", threw |-> TRUE, validated |-> FALSE,
                          message |-> "Archetypes JSON is invalid"]
            /\ UNCHANGED loadedArchetypes
       ELSE /\ loadedArchetypes' = res.entries
            /\ \E message \in {validateArchetypes(res.entries)} :
                 called' = [fn |-> "loadArchetypes", threw |-> (message # ""),
                            validated |-> TRUE, message |-> message,
                            entries |-> res.entries]
    /\ UNCHANGED <<questions, quizIndex, answers, storage, user, archetype, outcome,
                   filtered, scored, penalised, results, previousResults, screen, hasState>>

\* loadQuestions(): _questions is assigned before validateQuestions runs.
loadQuestions(res) ==
    /\ IF ~res.ok
       THEN /\ called' = [fn |-> "loadQuestions", threw |-> TRUE, validated |-> FALSE,
                          message |-> "Failed to load questions"]
            /\ UNCHANGED questions
       ELSE IF ~res.list
       THEN /\ called' = [fn |-> "loadQuestions", threw |-> TRUE, validated |-> FALSE,
                          message |-> "Questions JSON is invalid"]
            /\ UNCHANGED questions
       ELSE /\ questions' = res.entries
            /\ \E message \in {validateQuestions(res.entries)} :
                 called' = [fn |-> "loadQuestions", threw |-> (message # ""),
                            validated |-> TRUE, message |-> message,
                            entries |-> res.entries]
    /\ UNCHANGED <<quizIndex, answers, storage, user, archetype, outcome, filtered,
                   matchVars, previousResults, screen, hasState>>

\* The archetype lists a response may hold: catalogs that pass, and one for
\* each error of validateArchetypes.
ArchetypeLists ==
    {SmallCatalog, ArchetypeCatalog, <<>>,
     SmallCatalog \o <<SmallCatalog[2]>>,
     <<[SmallCatalog[1] EXCEPT !.id = ""]>>,
     <<SmallCatalog[1], [SmallCatalog[2] EXCEPT !.traits = [T1 |-> 2, T2 |-> 2]]>>,
     <<[SmallCatalog[1] EXCEPT !.traits["T3"] = 5], SmallCatalog[2]>>,
     <<[SmallCatalog[3] EXCEPT !.traits["T9"] = -1]>>}

\* The question lists a response may hold: catalogs that pass, and one for
\* each error of validateQuestions.
QuestionLists ==
    {TourCatalog, QuizCatalog, <<>>,
     TourCatalog \o <<TourCatalog[1]>>,
     <<[TourCatalog[1] EXCEPT !.id = ""]>>,
     <<TourCatalog[1], [TourCatalog[2] EXCEPT !.type = "scale"]>>,
     <<[TourCatalog[3] EXCEPT !.options = SubSeq(@, 1, 1)]>>,
     <<[TourCatalog[1] EXCEPT !.options = @ \o <<@[1]>>]>>}

InitLoad ==
    /\ questions = EmptyCatalog
    /\ quizIndex = 0
    /\ answers = EmptyAnswers
    /\ storage = persist(0, EmptyAnswers)
    /\ user = NoProfile
    /\ archetype = NoArchetype
    /\ outcome = NoOutcome
    /\ filtered = NoFiltered
    /\ loadedArchetypes = NoArchetypes
    /\ scored = NoScored
    /\ penalised = NoPenalised
    /\ results = NoResults
    /\ previousResults = NoResults
    /\ screen = NoScreen
    /\ hasState = TRUE
    /\ called = NoCall

NextLoad ==
    \/ \E res \in {NotOk, NoList} \cup {Listed(l) : l \in ArchetypeLists} : loadArchetypes(res)
    \/ \E res \in {NotOk, NoList} \cup {Listed(l) : l \in QuestionLists} : loadQuestions(res)

SpecLoad == InitLoad /\ [][NextLoad]_vars

----------------------------------------------------------------------------
(* Claims on the loaders (SpecLoad).                                       *)

\* C23 as stated: when loadArchetypes or loadQuestions throws because the
\* validation failed, the catalog it rejected is not the one getArchetypes
\* or getQuestions returns afterwards.
C23_InvalidNotReturned ==
    (called.threw /\ called.validated) =>
      /\ (called.fn = "loadArchetypes") => loadedArchetypes # called.entries
      /\ (called.fn = "loadQuestions") => questions # called.entries

============================================================================
